---- MODULE Spec2Model ----
(***************************************************************************)
(* MindMap: the markdown outline export (client/src/lib/export-service.ts), *)
(* the storage layer behind the REST routes (server/storage.ts and the     *)
(* schema's foreign keys) and the canvas gesture handlers (MindMapCanvas,  *)
(* NodeComponent, HomePage zoom buttons).                                  *)
(*                                                                         *)
(* Node and connection ids are opaque uuids in the program; the model uses *)
(* the integers 1, 2, ... for them.                                        *)
(***************************************************************************)
EXTENDS Integers, Sequences, FiniteSets, TLC

\* ------------------------------------------------------------------------
\* Bounds of the model
\* ------------------------------------------------------------------------
\* Ids 1..MaxNodes may occur as connection endpoints of an exported map.
MaxNodes == 3
\* An exported map holds at most MaxConns connections.
MaxConns == 3
\* The database hands out at most MaxDbNodes node ids and MaxDbConns
\* connection ids.
MaxDbNodes == 2
MaxDbConns == 2
\* Numbers are kept to Digits decimal places.
Digits == 2
\* The canvas model follows at most MaxMutations mutate() calls.
MaxMutations == 2
\* The pan offset stays within MaxPan pixels of the origin on both axes.
MaxPan == 10
\* The maps table is followed up to the logical time MaxTime.
MaxTime == 2

VARIABLES
  map,            \* the in-memory map handed to the export: [nodes, connections]
  exported,       \* TRUE once exportMarkdown has run on map
  exportResult,   \* what exportMarkdown left behind: visited, markdown, counters
  dbMaps,         \* table maps: rows [id, userId]
  updatedAt,      \* maps.updated_at, per map id: a logical time
  dbNodes,        \* table nodes: rows [id, mapId, x, y], oldest first
  dbConnections,  \* table connections: rows [id, mapId, sourceNodeId, targetNodeId]
  nextNodeId,     \* the next id gen_random_uuid() gives a node
  nextConnId,     \* the next id gen_random_uuid() gives a connection
  res,            \* the status of the last HTTP response (0: none yet)
  deletedNodes,   \* history: the ids of the nodes DELETE /api/nodes removed
  zoomLevel,            \* HomePage: zoomLevel
  selectedNodeId,       \* HomePage: selectedNodeId (0: null)
  connectionStartNode,  \* MindMapCanvas: connectionStartNode (0: null)
  panOffset,            \* MindMapCanvas: panOffset
  isPanning,            \* MindMapCanvas: isPanning
  panStart,             \* MindMapCanvas: panStart
  isDragging,           \* NodeComponent: isDragging, per node
  dragStart,            \* NodeComponent: dragStart, per node
  style,                \* nodeRef.current.style left/top, per node
  ptr,                  \* the pointer: pressed or not, where it went down and is
  mutations             \* the mutate() calls made so far, oldest first

linVars == <<map, exported, exportResult>>
storeVars == <<dbMaps, updatedAt, dbNodes, dbConnections, nextNodeId, nextConnId, res,
               deletedNodes>>
viewVars == <<zoomLevel, panOffset>>
gestureVars == <<selectedNodeId, connectionStartNode, isPanning, panStart,
                 isDragging, dragStart, style, ptr, mutations>>
canvasVars == <<viewVars, gestureVars>>
vars == <<linVars, storeVars, canvasVars>>

\* ------------------------------------------------------------------------
\* ExportService.exportMarkdown: the hierarchical "Nodes" section
\* ------------------------------------------------------------------------
\* the ids of map.nodes
NodeIdsOf(m) == {m.nodes[i].id : i \in 1..Len(m.nodes)}

\* nodeMap.get(nodeId) is defined
nodeMapHas(m, nodeId) == nodeId \in NodeIdsOf(m)

\* connectionMap.get(nodeId) || []  : the targets of nodeId's connections, in
\* the order the connections appear in map.connections
connectionMapReversed(m, nodeId) ==
  LET own == SelectSeq(m.connections, LAMBDA c : c.sourceNodeId = nodeId)
  IN [i \in 1..Len(own) |-> own[Len(own) + 1 - i].targetNodeId]

connectionMap(m, nodeId) ==
  LET own == SelectSeq(m.connections, LAMBDA c : c.sourceNodeId = nodeId)
  IN [i \in 1..Len(own) |-> own[i].targetNodeId]

hasIncomingSources(m) == {m.connections[i].sourceNodeId : i \in 1..Len(m.connections)}

hasIncoming(m) == {m.connections[i].targetNodeId : i \in 1..Len(m.connections)}

rootNodesReversed(m) ==
  LET roots == SelectSeq(m.nodes, LAMBDA n : n.id \notin hasIncoming(m))
  IN [i \in 1..Len(roots) |-> roots[Len(roots) + 1 - i]]

rootNodes(m) == SelectSeq(m.nodes, LAMBDA n : n.id \notin hasIncoming(m))

\* The traversal state: the visited set, the lines written so far (the id of
\* the node and its indentation level) and two counters of the work done:
\* calls of addNodeToMarkdown, and calls that got past the visited check.
EmptyExport == [visited |-> {}, markdown |-> <<>>, calls |-> 0, expansions |-> 0]

RECURSIVE addNodeToMarkdown(_, _, _, _)
RECURSIVE forEachChild(_, _, _, _)

addNodeToMarkdown(m, nodeId, level, st) ==
  LET entered == [st EXCEPT !.calls = @ + 1]
  IN IF nodeId \in st.visited
       THEN entered
       ELSE LET marked == [entered EXCEPT !.visited = @ \cup {nodeId},
                                          !.expansions = @ + 1]
            IN IF ~nodeMapHas(m, nodeId)
                 THEN marked
                 ELSE forEachChild(m, connectionMap(m, nodeId), level + 1,
                        [marked EXCEPT !.markdown =
                            Append(@, [id |-> nodeId, level |-> level])])

forEachChild(m, children, level, st) ==
  IF children = <<>>
    THEN st
    ELSE forEachChild(m, Tail(children), level,
                      addNodeToMarkdown(m, Head(children), level, st))

\* rootNodes.forEach(node => addNodeToMarkdown(node.id))
RECURSIVE startWithRootNodes(_, _, _)
RECURSIVE startWithRootNodesOwnVisited(_, _, _)

startWithRootNodesOwnVisited(m, roots, st) ==
  IF roots = <<>>
    THEN st
    ELSE startWithRootNodesOwnVisited(m, Tail(roots),
           addNodeToMarkdown(m, Head(roots).id, 0, [st EXCEPT !.visited = {}]))

startWithRootNodes(m, roots, st) ==
  IF roots = <<>>
    THEN st
    ELSE startWithRootNodes(m, Tail(roots),
                            addNodeToMarkdown(m, Head(roots).id, 0, st))

\* map.nodes.forEach(node => { if (!visited.has(node.id)) addNodeToMarkdown(node.id) })
RECURSIVE addUnconnectedNodes(_, _, _)

RECURSIVE addUnconnectedNodesReversed(_, _, _)

addUnconnectedNodesReversed(m, ns, st) ==
  IF ns = <<>>
    THEN st
    ELSE addUnconnectedNodesReversed(m, SubSeq(ns, 1, Len(ns) - 1),
           IF ns[Len(ns)].id \in st.visited
             THEN st
             ELSE addNodeToMarkdown(m, ns[Len(ns)].id, 0, st))

addUnconnectedNodesSkipped(m, ns, st) == st

addUnconnectedNodes(m, ns, st) ==
  IF ns = <<>>
    THEN st
    ELSE addUnconnectedNodes(m, Tail(ns),
           IF Head(ns).id \in st.visited
             THEN st
             ELSE addNodeToMarkdown(m, Head(ns).id, 0, st))

exportMarkdown(m) ==
  IF Len(m.nodes) = 0
    THEN EmptyExport
    ELSE addUnconnectedNodes(m, m.nodes,
           startWithRootNodes(m, rootNodes(m), EmptyExport))

\* The connections the canvas draws and the "Connections" section lists: both
\* endpoints are found in map.nodes.
renderable(m) ==
  [m EXCEPT !.connections =
     SelectSeq(@, LAMBDA c : nodeMapHas(m, c.sourceNodeId)
                             /\ nodeMapHas(m, c.targetNodeId))]

\* ------------------------------------------------------------------------
\* Numbers
\* ------------------------------------------------------------------------
\* A JavaScript number is a double: every operation rounds its result to the
\* nearest representable value. The model keeps numbers as multiples of
\* 1/Scale and rounds each product and quotient to the nearest multiple.
Scale == 10 ^ Digits

Abs(a) == IF a < 0 THEN 0 - a ELSE a
Min(a, b) == IF a < b THEN a ELSE b
Max(a, b) == IF a > b THEN a ELSE b

\* n / d to the nearest integer (d > 0)
RoundDiv(n, d) == (2 * n + d) \div (2 * d)
\* the number n / d
Num(n, d) == RoundDiv(n * Scale, d)
\* a * b and a / b
Times(a, b) == RoundDiv(a * b, Scale)
Over(a, b) == RoundDiv(a * Scale, b)
\* n pixels
Px(n) == n * Scale

Pt(x, y) == [x |-> x, y |-> y]
Origin == Pt(0, 0)
Minus(a, b) == Pt(a.x - b.x, a.y - b.y)

\* ------------------------------------------------------------------------
\* Viewport: HomePage zoom buttons, MindMapCanvas wheel and transform
\* ------------------------------------------------------------------------
One == Num(1, 1)
ZoomMin == Num(1, 10)
ZoomMax == Num(3, 1)

\* transform: translate(panOffset) scale(zoomLevel), origin 0 0
toScreen(p, pan, zoom) == Pt(Times(p.x, zoom) + pan.x, Times(p.y, zoom) + pan.y)

\* handleNodeMove: (x - panOffset.x) / zoomLevel
toLogicalPanAfter(q, pan, zoom) == Pt(Over(q.x, zoom) - pan.x, Over(q.y, zoom) - pan.y)

toLogical(q, pan, zoom) == Pt(Over(q.x - pan.x, zoom), Over(q.y - pan.y, zoom))

\* handleZoomIn: Math.min(prev * 1.2, 3)
zoomIn(prev) == Min(Times(prev, Num(12, 10)), ZoomMax)

\* handleZoomOut: Math.max(prev / 1.2, 0.1)
zoomOutUnclamped(prev) == Over(prev, Num(12, 10))

zoomOut(prev) == Max(Over(prev, Num(12, 10)), ZoomMin)

\* handleWheel: Math.max(0.1, Math.min(3, zoomLevel * delta))
wheelZoomSwapped(zoom, deltaYPositive) ==
  LET delta == IF deltaYPositive THEN Num(11, 10) ELSE Num(9, 10)
  IN Max(ZoomMin, Min(ZoomMax, Times(zoom, delta)))

wheelZoom(zoom, deltaYPositive) ==
  LET delta == IF deltaYPositive THEN Num(9, 10) ELSE Num(11, 10)
  IN Max(ZoomMin, Min(ZoomMax, Times(zoom, delta)))

\* No pointer is pressed (a mouse may hover). Of a pressed pointer the model
\* keeps its type, what it went down on (0: the canvas, else the node), where
\* it went down, where it is, and whether it has been more than 10 px
\* (|dx| + |dy|) away from where it went down.
\* No second contact: a second pointer is on the screen only in multi-touch
NoSecond == [down |-> FALSE, target |-> 0, pos |-> Origin]

NoPointer == [down |-> FALSE, type |-> "mouse", target |-> 0,
              downPos |-> Origin, pos |-> Origin, crossed |-> FALSE,
              second |-> NoSecond]

\* The canvas as mounted: nothing selected, nothing pressed, zoom 1, no pan.
CanvasIdle ==
  /\ zoomLevel = One
  /\ selectedNodeId = 0
  /\ connectionStartNode = 0
  /\ panOffset = Origin
  /\ isPanning = FALSE
  /\ panStart = Origin
  /\ isDragging = [n \in NodeIdsOf(map) |-> FALSE]
  /\ dragStart = [n \in NodeIdsOf(map) |-> Origin]
  /\ style = [n \in NodeIdsOf(map) |->
                LET node == CHOOSE m \in {map.nodes[i] : i \in 1..Len(map.nodes)} :
                              m.id = n
                IN [x |-> node.x, y |-> node.y]]
  /\ ptr = NoPointer
  /\ mutations = <<>>

HandleZoomIn ==
  /\ zoomLevel' = zoomIn(zoomLevel)
  /\ UNCHANGED <<panOffset, gestureVars, linVars, storeVars>>

HandleZoomOut ==
  /\ zoomLevel' = zoomOut(zoomLevel)
  /\ UNCHANGED <<panOffset, gestureVars, linVars, storeVars>>

HandleWheel(deltaYPositive) ==
  /\ zoomLevel' = wheelZoom(zoomLevel, deltaYPositive)
  /\ UNCHANGED <<panOffset, gestureVars, linVars, storeVars>>


\* ------------------------------------------------------------------------
\* Inputs of the export
\* ------------------------------------------------------------------------
\* The first k ids are the map's nodes, in this order (ids are opaque, so any
\* other order is a renaming); ids above k are ids no node of the map has.
NodeLists ==
  {[i \in 1..k |-> [id |-> i, x |-> 20, y |-> 20]] : k \in 0..MaxNodes}

ConnectionLists ==
  UNION {[1..k -> [sourceNodeId : 1..MaxNodes, targetNodeId : 1..MaxNodes]]
           : k \in 0..MaxConns}

\* Two users have one map each and no node yet.
StoreInit ==
  /\ dbMaps = {[id |-> 1, userId |-> 1], [id |-> 2, userId |-> 2]}
  /\ updatedAt = [m \in {row.id : row \in dbMaps} |-> 0]
  /\ dbNodes = <<>>
  /\ dbConnections = <<>>
  /\ nextNodeId = 1
  /\ nextConnId = 1
  /\ res = 0
  /\ deletedNodes = {}

\* No map is open in the browser.
LinIdle ==
  /\ map = [id |-> 1, nodes |-> <<>>, connections |-> <<>>]
  /\ exported = FALSE
  /\ exportResult = EmptyExport

InitLin ==
  /\ map \in [id : {1}, nodes : NodeLists, connections : ConnectionLists]
  /\ exported = FALSE
  /\ exportResult = EmptyExport
  /\ StoreInit
  /\ CanvasIdle

\* Toolbar.handleExport with format "markdown"
ExportMarkdown ==
  /\ exported' = TRUE
  /\ exportResult' = exportMarkdown(map)
  /\ UNCHANGED <<map, storeVars, canvasVars>>

NextLin == ExportMarkdown

SpecLin == InitLin /\ [][NextLin]_vars

\* Pan offsets a mouse pan leaves behind.
ViewPans == {Origin, Pt(Px(10), 0), Pt(Px(0 - 6), Px(5))}

\* The logical points the transform is tried on.
LogicalPoints ==
  {Origin, Pt(Px(1), Px(0 - 7)), Pt(Px(20) + 1, Px(13) - 1), Pt(Px(0 - 3) + 3, 7)}

InitView ==
  /\ StoreInit
  /\ LinIdle
  /\ zoomLevel = One
  /\ selectedNodeId = 0
  /\ connectionStartNode = 0
  /\ panOffset \in ViewPans
  /\ isPanning = FALSE
  /\ panStart = Origin
  /\ isDragging = [n \in NodeIdsOf(map) |-> FALSE]
  /\ dragStart = [n \in NodeIdsOf(map) |-> Origin]
  /\ style = [n \in NodeIdsOf(map) |->
                LET node == CHOOSE m \in {map.nodes[i] : i \in 1..Len(map.nodes)} :
                              m.id = n
                IN [x |-> node.x, y |-> node.y]]
  /\ ptr = NoPointer
  /\ mutations = <<>>

NextView ==
  \/ HandleZoomIn
  \/ HandleZoomOut
  \/ \E deltaYPositive \in BOOLEAN : HandleWheel(deltaYPositive)

SpecView == InitView /\ [][NextView]_vars

\* ------------------------------------------------------------------------
\* Gestures: MindMapCanvas and NodeComponent pointer handlers
\* ------------------------------------------------------------------------
\* Where pointer events happen (clientX, clientY).
PointerPos == {Origin, Pt(Px(10), 0), Pt(Px(6), Px(5))}
\* Where pointer events happen while a node is pressed.
DragPos == {Origin, Pt(Px(10), 0)}
Manhattan(a, b) == Abs(a.x - b.x) + Abs(a.y - b.y)
PointerTypes == {"mouse", "touch"}
\* e.button: 0 primary, 1 middle, 2 secondary; a touch contact is button 0
Buttons == {0, 1, 2}

nodeById(n) == CHOOSE node \in {map.nodes[i] : i \in 1..Len(map.nodes)} : node.id = n

withinMaxPan(p) == Abs(p.x) <= Px(MaxPan) /\ Abs(p.y) <= Px(MaxPan)

\* The nodes whose NodeComponent has its document listeners attached
\* (useEffect on isDragging), in mounting order.
draggingNodes == SelectSeq(map.nodes, LAMBDA node : isDragging[node.id])

\* The canvas has its document listeners attached (useEffect on isPanning).
panListenersAttached == isPanning

\* handleNodeMove(nodeId, x, y): the mutate() call it makes
handleNodeMove(nodeId, q) ==
  [op |-> "updateNode", id |-> nodeId,
   x |-> toLogical(q, panOffset, zoomLevel).x,
   y |-> toLogical(q, panOffset, zoomLevel).y]

\* NodeComponent.handlePointerMove: the mutate() calls it leads to (none: it
\* writes style.left and style.top only)
handlePointerMoveCallsOnMove(pos) ==
  [i \in 1..Len(draggingNodes) |->
     handleNodeMove(draggingNodes[i].id, Minus(pos, dragStart[draggingNodes[i].id]))]

handlePointerMoveCalls(pos) == <<>>

\* handleNodeClick(nodeId, isCtrlKey)
handleNodeClickKeepsPending(nodeId, isCtrlKey) ==
  IF isCtrlKey
    THEN IF connectionStartNode = 0
           THEN /\ connectionStartNode' = nodeId
                /\ UNCHANGED <<selectedNodeId, mutations>>
           ELSE IF connectionStartNode = nodeId
             THEN /\ connectionStartNode' = 0
                  /\ UNCHANGED <<selectedNodeId, mutations>>
             ELSE /\ Len(mutations) < MaxMutations
                  /\ mutations' =
                       Append(mutations,
                              [op |-> "createConnection", mapId |-> map.id,
                               sourceNodeId |-> connectionStartNode,
                               targetNodeId |-> nodeId])
                  /\ UNCHANGED <<selectedNodeId, connectionStartNode>>
    ELSE /\ selectedNodeId' = nodeId
         /\ UNCHANGED <<connectionStartNode, mutations>>

handleNodeClickNoCancel(nodeId, isCtrlKey) ==
  IF isCtrlKey
    THEN IF connectionStartNode = 0
           THEN /\ connectionStartNode' = nodeId
                /\ UNCHANGED <<selectedNodeId, mutations>>
           ELSE /\ Len(mutations) < MaxMutations
                /\ mutations' =
                     Append(mutations,
                            [op |-> "createConnection", mapId |-> map.id,
                             sourceNodeId |-> connectionStartNode,
                             targetNodeId |-> nodeId])
                /\ UNCHANGED <<selectedNodeId, connectionStartNode>>
    ELSE /\ selectedNodeId' = nodeId
         /\ connectionStartNode' = 0
         /\ UNCHANGED mutations

handleNodeClick(nodeId, isCtrlKey) ==
  IF isCtrlKey
    THEN IF connectionStartNode = 0
           THEN /\ connectionStartNode' = nodeId
                /\ UNCHANGED <<selectedNodeId, mutations>>
           ELSE IF connectionStartNode = nodeId
             THEN /\ connectionStartNode' = 0
                  /\ UNCHANGED <<selectedNodeId, mutations>>
             ELSE /\ Len(mutations) < MaxMutations
                  /\ mutations' =
                       Append(mutations,
                              [op |-> "createConnection", mapId |-> map.id,
                               sourceNodeId |-> connectionStartNode,
                               targetNodeId |-> nodeId])
                  /\ UNCHANGED <<selectedNodeId, connectionStartNode>>
    ELSE /\ selectedNodeId' = nodeId
         /\ connectionStartNode' = 0
         /\ UNCHANGED mutations

\* NodeComponent.handlePointerDown; the event does not reach the canvas
NodePointerDownAlwaysDrags(n, type, pos, ctrlKey) ==
  /\ ~ptr.down
  /\ n \in NodeIdsOf(map)
  /\ ptr' = [down |-> TRUE, type |-> type, target |-> n, downPos |-> pos,
             pos |-> pos, crossed |-> FALSE, second |-> ptr.second]
  /\ handleNodeClick(n, ctrlKey)
  /\ isDragging' = [isDragging EXCEPT ![n] = TRUE]
  /\ dragStart' = [dragStart EXCEPT
                     ![n] = Minus(pos, Pt(nodeById(n).x, nodeById(n).y))]
  /\ UNCHANGED <<viewVars, isPanning, panStart, style, linVars, storeVars>>

NodePointerDown(n, type, pos, ctrlKey) ==
  /\ ~ptr.down
  /\ n \in NodeIdsOf(map)
  /\ ptr' = [down |-> TRUE, type |-> type, target |-> n, downPos |-> pos,
             pos |-> pos, crossed |-> FALSE, second |-> ptr.second]
  /\ handleNodeClick(n, ctrlKey)
  /\ IF ctrlKey
       THEN UNCHANGED <<isDragging, dragStart>>
       ELSE /\ isDragging' = [isDragging EXCEPT ![n] = TRUE]
            /\ dragStart' = [dragStart EXCEPT
                               ![n] = Minus(pos, Pt(nodeById(n).x, nodeById(n).y))]
  /\ UNCHANGED <<viewVars, isPanning, panStart, style, linVars, storeVars>>

\* handlePanStart: a pointer-down that reaches the canvas
CanvasPointerDownAnyButton(type, button, shiftKey, pos) ==
  /\ ~ptr.down
  /\ type = "touch" => (button = 0 /\ ~shiftKey)
  /\ ptr' = [down |-> TRUE, type |-> type, target |-> 0, downPos |-> pos,
             pos |-> pos, crossed |-> FALSE, second |-> ptr.second]
  /\ IF type = "mouse"
       THEN /\ isPanning' = TRUE
            /\ panStart' = Minus(pos, panOffset)
       ELSE /\ panStart' = Minus(pos, panOffset)
            /\ UNCHANGED isPanning
  /\ UNCHANGED <<viewVars, selectedNodeId, connectionStartNode, isDragging,
                 dragStart, style, mutations, linVars, storeVars>>

CanvasPointerDown(type, button, shiftKey, pos) ==
  /\ ~ptr.down
  /\ type = "touch" => (button = 0 /\ ~shiftKey)
  /\ ptr' = [down |-> TRUE, type |-> type, target |-> 0, downPos |-> pos,
             pos |-> pos, crossed |-> FALSE, second |-> ptr.second]
  /\ IF button = 1 \/ (button = 0 /\ shiftKey)
       THEN /\ isPanning' = TRUE
            /\ panStart' = Minus(pos, panOffset)
       ELSE IF type = "touch"
         THEN /\ panStart' = Minus(pos, panOffset)
              /\ UNCHANGED isPanning
         ELSE UNCHANGED <<isPanning, panStart>>
  /\ UNCHANGED <<viewVars, selectedNodeId, connectionStartNode, isDragging,
                 dragStart, style, mutations, linVars, storeVars>>

\* handlePanMove, as the listener the last render attached
handlePanMoveByPosition(type, pos) ==
  LET moveDistance == Abs(pos.x - (panStart.x + panOffset.x))
                      + Abs(pos.y - (panStart.y + panOffset.y))
  IN /\ isPanning' = IF ~isPanning /\ type = "touch" /\ moveDistance > Px(10)
                       THEN TRUE
                       ELSE isPanning
     /\ IF ~isPanning
          THEN UNCHANGED panOffset
          ELSE /\ withinMaxPan(pos)
               /\ panOffset' = pos

handlePanMove(type, pos) ==
  LET moveDistance == Abs(pos.x - (panStart.x + panOffset.x))
                      + Abs(pos.y - (panStart.y + panOffset.y))
  IN /\ isPanning' = IF ~isPanning /\ type = "touch" /\ moveDistance > Px(10)
                       THEN TRUE
                       ELSE isPanning
     /\ IF ~isPanning
          THEN UNCHANGED panOffset
          ELSE /\ withinMaxPan(Minus(pos, panStart))
               /\ panOffset' = Minus(pos, panStart)

\* A pointermove on the document: the pressed pointer moves, or the mouse
\* moves with no button pressed. It reaches the listeners that are attached.
PointerMove(pos) ==
  /\ ptr' = IF ptr.down
              THEN [ptr EXCEPT !.pos = pos,
                               !.crossed = @ \/ Manhattan(pos, ptr.downPos) > Px(10)]
              ELSE ptr
  /\ style' = [n \in DOMAIN style |->
                 IF isDragging[n] THEN Minus(pos, dragStart[n]) ELSE style[n]]
  /\ mutations' = mutations \o handlePointerMoveCalls(pos)
  /\ IF panListenersAttached
       THEN handlePanMove(ptr.type, pos)
       ELSE UNCHANGED <<isPanning, panOffset>>
  /\ UNCHANGED <<zoomLevel, selectedNodeId, connectionStartNode, panStart,
                 isDragging, dragStart, linVars, storeVars>>

\* A pointerup on the document: NodeComponent.handlePointerUp of every node
\* that is being dragged, and handlePanEnd if the canvas is panning.
PointerUp ==
  /\ ptr.down
  /\ Len(mutations) + Len(draggingNodes) <= MaxMutations
  /\ ptr' = NoPointer
  /\ isDragging' = [n \in DOMAIN isDragging |-> FALSE]
  /\ mutations' = mutations \o
       [i \in 1..Len(draggingNodes) |->
          handleNodeMove(draggingNodes[i].id,
                         Minus(ptr.pos, dragStart[draggingNodes[i].id]))]
  /\ isPanning' = FALSE
  /\ UNCHANGED <<viewVars, selectedNodeId, connectionStartNode, panStart,
                 dragStart, style, linVars, storeVars>>

\* A pointercancel: the browser ends the pointer; no handler listens for it.
PointerCancel ==
  /\ ptr.down
  /\ ptr' = NoPointer
  /\ UNCHANGED <<viewVars, selectedNodeId, connectionStartNode, isPanning,
                 panStart, isDragging, dragStart, style, mutations, linVars,
                 storeVars>>

\* handleCanvasClick: a click that reaches the canvas, on the canvas element
\* itself or on one of its children
CanvasClick(targetIsCanvas) ==
  /\ ~ptr.down
  /\ selectedNodeId' = IF targetIsCanvas THEN 0 ELSE selectedNodeId
  /\ UNCHANGED <<viewVars, connectionStartNode, isPanning, panStart, isDragging,
                 dragStart, style, ptr, mutations, linVars, storeVars>>

\* NodeComponent.handlePointerDown of node n for a second touch contact,
\* which goes down while the first is on the screen
SecondPointerDown(n, pos) ==
  /\ ptr.down
  /\ ~ptr.second.down
  /\ n \in NodeIdsOf(map)
  /\ ptr' = [ptr EXCEPT !.second = [down |-> TRUE, target |-> n, pos |-> pos]]
  /\ handleNodeClick(n, FALSE)
  /\ isDragging' = [isDragging EXCEPT ![n] = TRUE]
  /\ dragStart' = [dragStart EXCEPT
                     ![n] = Minus(pos, Pt(nodeById(n).x, nodeById(n).y))]
  /\ UNCHANGED <<viewVars, isPanning, panStart, style, linVars, storeVars>>

\* A pointermove of the second contact on the document: it reaches the same
\* listeners as any pointermove (no listener reads e.pointerId)
SecondPointerMove(pos) ==
  /\ ptr.second.down
  /\ ptr' = [ptr EXCEPT !.second.pos = pos]
  /\ style' = [n \in DOMAIN style |->
                 IF isDragging[n] THEN Minus(pos, dragStart[n]) ELSE style[n]]
  /\ mutations' = mutations \o handlePointerMoveCalls(pos)
  /\ IF panListenersAttached
       THEN handlePanMove("touch", pos)
       ELSE UNCHANGED <<isPanning, panOffset>>
  /\ UNCHANGED <<zoomLevel, selectedNodeId, connectionStartNode, panStart,
                 isDragging, dragStart, linVars, storeVars>>

\* A pointerup of one of two contacts on the document (second: it is the
\* second one): NodeComponent.handlePointerUp of every node that is being
\* dragged, with the position of the contact that went up, and handlePanEnd
TouchUp(second) ==
  LET pos == IF second THEN ptr.second.pos ELSE ptr.pos
  IN /\ IF second THEN ptr.second.down ELSE ptr.down
     /\ Len(mutations) + Len(draggingNodes) <= MaxMutations
     /\ ptr' = IF second
                 THEN [ptr EXCEPT !.second = NoSecond]
                 ELSE [NoPointer EXCEPT !.second = ptr.second]
     /\ isDragging' = [n \in DOMAIN isDragging |-> FALSE]
     /\ mutations' = mutations \o
          [i \in 1..Len(draggingNodes) |->
             handleNodeMove(draggingNodes[i].id,
                            Minus(pos, dragStart[draggingNodes[i].id]))]
     /\ isPanning' = FALSE
     /\ UNCHANGED <<viewVars, selectedNodeId, connectionStartNode, panStart,
                    dragStart, style, linVars, storeVars>>

\* A map with two nodes is open.
InitCanvas ==
  /\ map = [id |-> 1,
            nodes |-> <<[id |-> 1, x |-> Px(20), y |-> Px(20)],
                        [id |-> 2, x |-> Px(180), y |-> Px(20)]>>,
            connections |-> <<>>]
  /\ exported = FALSE
  /\ exportResult = EmptyExport
  /\ StoreInit
  /\ CanvasIdle

\* Gestures on the canvas surface: pan with the mouse, touch.
NextPan ==
  \/ \E type \in PointerTypes, button \in Buttons, shiftKey \in BOOLEAN,
        pos \in PointerPos :
       CanvasPointerDown(type, button, shiftKey, pos)
  \/ \E pos \in PointerPos : PointerMove(pos)
  \/ PointerUp
  \/ PointerCancel

SpecPan == InitCanvas /\ [][NextPan]_vars

\* Gestures on the nodes without a modifier key: select and drag.
NextDrag ==
  \/ \E n \in NodeIdsOf(map), type \in PointerTypes, pos \in DragPos :
       NodePointerDown(n, type, pos, FALSE)
  \/ \E pos \in DragPos : PointerMove(pos)
  \/ PointerUp
  \/ PointerCancel
  \/ \E targetIsCanvas \in BOOLEAN : CanvasClick(targetIsCanvas)

SpecDrag == InitCanvas /\ [][NextDrag]_vars

\* Mouse gestures on the nodes and on the canvas surface.
NextGesture ==
  \/ \E n \in NodeIdsOf(map) : NodePointerDown(n, "mouse", Origin, FALSE)
  \/ \E button \in Buttons, shiftKey \in BOOLEAN :
       CanvasPointerDown("mouse", button, shiftKey, Origin)
  \/ \E pos \in DragPos : PointerMove(pos)
  \/ PointerUp
  \/ PointerCancel

SpecGesture == InitCanvas /\ [][NextGesture]_vars

\* Two touch contacts on the nodes: each goes down on a node, moves and goes
\* up, in any order.
NextTouch ==
  \/ \E n \in NodeIdsOf(map), pos \in DragPos : NodePointerDown(n, "touch", pos, FALSE)
  \/ \E n \in NodeIdsOf(map), pos \in DragPos : SecondPointerDown(n, pos)
  \/ ptr.down /\ \E pos \in DragPos : PointerMove(pos)
  \/ \E pos \in DragPos : SecondPointerMove(pos)
  \/ \E second \in BOOLEAN : TouchUp(second)

SpecTouch == InitCanvas /\ [][NextTouch]_vars

\* The canvas is 800 x 600.
CanvasRect == [width |-> Px(800), height |-> Px(600)]

\* The "Nodes Container" div (absolute inset-0 z-20, transform: translate(
\* panOffset) scale(zoomLevel), origin 0 0) lies over the canvas; no
\* pointer-events-none keeps it from being hit. It covers the client point pos:
nodesContainerHas(pos) ==
  /\ panOffset.x <= pos.x /\ pos.x <= panOffset.x + Times(CanvasRect.width, zoomLevel)
  /\ panOffset.y <= pos.y /\ pos.y <= panOffset.y + Times(CanvasRect.height, zoomLevel)

\* A click at pos, a point of the canvas where no node is (the nodes of
\* InitCanvas are rendered off the points where pointer events happen, however
\* the canvas is panned): e.target is the canvas element unless the container is hit
CanvasClickAt(pos) == CanvasClick(~nodesContainerHas(pos))

\* handleCanvasClick(e) for the click at pos with e.shiftKey = shiftKey: the
\* handler reads e.target and e.currentTarget and no modifier key
CanvasClickEvent(shiftKey, pos) ==
  /\ shiftKey \in BOOLEAN
  /\ CanvasClickAt(pos)

\* Select a node by mouse, press the empty canvas with or without shift,
\* by mouse or touch, move while the canvas is pressed, release, click.
NextSelect ==
  \/ \E n \in NodeIdsOf(map) : NodePointerDown(n, "mouse", Origin, FALSE)
  \/ \E type \in PointerTypes, shiftKey \in BOOLEAN :
       CanvasPointerDown(type, 0, shiftKey, Origin)
  \/ /\ ptr.down /\ ptr.target = 0
     /\ \E pos \in DragPos : PointerMove(pos)
  \/ PointerUp
  \/ \E pos \in DragPos : CanvasClickAt(pos)

SpecSelect == InitCanvas /\ [][NextSelect]_vars

\* ------------------------------------------------------------------------
\* MindMapCanvas.handleAddNode
\* ------------------------------------------------------------------------
\* canvasRef.current.getBoundingClientRect(): the sizes the canvas may have
CanvasRects == {[width |-> Px(800), height |-> Px(600)],
                [width |-> Px(320), height |-> Px(200)]}

\* centerX, centerY
rectCenter(rect) == Pt(Over(rect.width, Num(2, 1)), Over(rect.height, Num(2, 1)))

\* x and y before "Ensure coordinates are positive"
addNodeSpaced(rect, pan, zoom, nodeCount) ==
  Pt(Over(rectCenter(rect).x - pan.x, zoom) - Px(60)
       + ((nodeCount % 3) * Px(160) - Px(160)),
     Over(rectCenter(rect).y - pan.y, zoom) - Px(30)
       + ((nodeCount \div 3) * Px(120) - Px(60)))

\* x = Math.max(20, x); y = Math.max(20, y)
addNodePositionAtLeastZero(rect, pan, zoom, nodeCount) ==
  Pt(Max(0, addNodeSpaced(rect, pan, zoom, nodeCount).x),
     Max(0, addNodeSpaced(rect, pan, zoom, nodeCount).y))

addNodePositionUnclamped(rect, pan, zoom, nodeCount) ==
  addNodeSpaced(rect, pan, zoom, nodeCount)

addNodePosition(rect, pan, zoom, nodeCount) ==
  Pt(Max(Px(20), addNodeSpaced(rect, pan, zoom, nodeCount).x),
     Max(Px(20), addNodeSpaced(rect, pan, zoom, nodeCount).y))

\* newNode, as far as the model keeps a node: createNodeMutation.mutate(newNode)
newNode(rect) ==
  [op |-> "createNode", mapId |-> map.id,
   x |-> addNodePosition(rect, panOffset, zoomLevel, Len(map.nodes)).x,
   y |-> addNodePosition(rect, panOffset, zoomLevel, Len(map.nodes)).y]

\* handleAddNode: the "add node" button
HandleAddNode(rect) ==
  /\ Len(mutations) < MaxMutations
  /\ mutations' = Append(mutations, newNode(rect))
  /\ UNCHANGED <<viewVars, selectedNodeId, connectionStartNode, isPanning,
                 panStart, isDragging, dragStart, style, ptr, linVars,
                 storeVars>>

\* Zoom levels the zoom controls lead to: 1 and the two ends of the range.
ZoomLevels == {One, ZoomMin, ZoomMax}

\* A map of up to MaxNodes nodes is open, the canvas panned and zoomed or not.
InitAdd ==
  /\ map \in [id : {1}, nodes : NodeLists, connections : {<<>>}]
  /\ exported = FALSE
  /\ exportResult = EmptyExport
  /\ StoreInit
  /\ zoomLevel \in ZoomLevels
  /\ selectedNodeId = 0
  /\ connectionStartNode = 0
  /\ panOffset \in ViewPans
  /\ isPanning = FALSE
  /\ panStart = Origin
  /\ isDragging = [n \in NodeIdsOf(map) |-> FALSE]
  /\ dragStart = [n \in NodeIdsOf(map) |-> Origin]
  /\ style = [n \in NodeIdsOf(map) |-> Pt(nodeById(n).x, nodeById(n).y)]
  /\ ptr = NoPointer
  /\ mutations = <<>>

\* The add button.
NextAdd == \E rect \in CanvasRects : HandleAddNode(rect)

SpecAdd == InitAdd /\ [][NextAdd]_vars

\* ------------------------------------------------------------------------
\* server/storage.ts behind the node, connection and map routes
\* ------------------------------------------------------------------------
Users == {1, 2}
\* req.isAuthenticated() is false
NoUser == 0
MapIds == {1, 2}
\* the position the request bodies carry
Positions == {[x |-> 20, y |-> 20]}

RowIds(rows) == {rows[i].id : i \in 1..Len(rows)}
MapRowIds == {m.id : m \in dbMaps}

\* new Date() and defaultNow(): a time later than every time stored
now ==
  1 + (CHOOSE t \in {0} \cup {updatedAt[m] : m \in DOMAIN updatedAt} :
         \A m \in DOMAIN updatedAt : updatedAt[m] <= t)

\* references(() => nodes.id, { onDelete: "cascade" }) on sourceNodeId and
\* targetNodeId, references(() => maps.id, { onDelete: "cascade" }) on mapId:
\* the connections left once the rows they reference are gone
onDeleteNoAction(conns, nodeIds, mapIds) == conns

onDeleteCascade(conns, nodeIds, mapIds) ==
  SelectSeq(conns, LAMBDA c : /\ c.sourceNodeId \in nodeIds
                              /\ c.targetNodeId \in nodeIds
                              /\ c.mapId \in mapIds)

\* DatabaseStorage.getMap(id, userId): undefined (here: the empty record set)
\* unless the user owns the map
getMap(id, userId) ==
  IF [id |-> id, userId |-> userId] \in dbMaps
    THEN {[id |-> id,
           nodes |-> SelectSeq(dbNodes, LAMBDA n : n.mapId = id),
           connections |-> SelectSeq(dbConnections, LAMBDA c : c.mapId = id)]}
    ELSE {}

\* requireAuth
requireAuthSkipped(user) == TRUE

requireAuth(user) == user # NoUser

Unauthorized ==
  /\ res' = 401
  /\ UNCHANGED <<dbMaps, updatedAt, dbNodes, dbConnections, nextNodeId, nextConnId,
                 deletedNodes>>

\* POST /api/nodes -> storage.createNode
postNodes(user, mapId, pos) ==
  IF ~requireAuth(user)
    THEN Unauthorized
    ELSE IF mapId \notin MapRowIds
      THEN \* the insert violates nodes.map_id's foreign key
           /\ res' = 500
           /\ UNCHANGED <<dbMaps, updatedAt, dbNodes, dbConnections, nextNodeId,
                          nextConnId, deletedNodes>>
      ELSE /\ dbNodes' = Append(dbNodes, [id |-> nextNodeId, mapId |-> mapId,
                                          x |-> pos.x, y |-> pos.y])
           /\ nextNodeId' = nextNodeId + 1
           /\ res' = 201
           /\ UNCHANGED <<dbMaps, updatedAt, dbConnections, nextConnId, deletedNodes>>

PostNode(user, mapId, pos) ==
  /\ nextNodeId <= MaxDbNodes
  /\ postNodes(user, mapId, pos)
  /\ UNCHANGED <<linVars, canvasVars>>

\* PUT /api/nodes/:id -> storage.updateNode
putNodesUpsert(user, id, pos) ==
  IF ~requireAuth(user)
    THEN Unauthorized
    ELSE /\ dbNodes' =
              IF id \in RowIds(dbNodes) \/ MapRowIds = {}
                THEN [i \in 1..Len(dbNodes) |->
                        IF dbNodes[i].id = id
                          THEN [dbNodes[i] EXCEPT !.x = pos.x, !.y = pos.y]
                          ELSE dbNodes[i]]
                ELSE Append(dbNodes,
                            [id |-> id, mapId |-> CHOOSE m \in MapRowIds : TRUE,
                             x |-> pos.x, y |-> pos.y])
         /\ res' = IF id \in RowIds(dbNodes) \/ MapRowIds # {} THEN 200 ELSE 404
         /\ UNCHANGED <<dbMaps, updatedAt, dbConnections, nextNodeId, nextConnId,
                        deletedNodes>>

putNodes(user, id, pos) ==
  IF ~requireAuth(user)
    THEN Unauthorized
    ELSE /\ dbNodes' = [i \in 1..Len(dbNodes) |->
                          IF dbNodes[i].id = id
                            THEN [dbNodes[i] EXCEPT !.x = pos.x, !.y = pos.y]
                            ELSE dbNodes[i]]
         /\ res' = IF id \in RowIds(dbNodes) THEN 200 ELSE 404
         /\ UNCHANGED <<dbMaps, updatedAt, dbConnections, nextNodeId, nextConnId,
                        deletedNodes>>

PutNode(user, id, pos) ==
  /\ putNodes(user, id, pos)
  /\ UNCHANGED <<linVars, canvasVars>>

\* DELETE /api/nodes/:id -> storage.deleteNode
deleteNodes(user, id) ==
  IF ~requireAuth(user)
    THEN Unauthorized
    ELSE LET rows == SelectSeq(dbNodes, LAMBDA n : n.id # id)
         IN /\ dbNodes' = rows
            /\ dbConnections' =
                 onDeleteCascade(dbConnections, RowIds(rows), MapRowIds)
            /\ res' = IF id \in RowIds(dbNodes) THEN 204 ELSE 404
            /\ deletedNodes' = IF id \in RowIds(dbNodes)
                                 THEN deletedNodes \cup {id}
                                 ELSE deletedNodes
            /\ UNCHANGED <<dbMaps, updatedAt, nextNodeId, nextConnId>>

DeleteNode(user, id) ==
  /\ deleteNodes(user, id)
  /\ UNCHANGED <<linVars, canvasVars>>

\* POST /api/connections -> storage.createConnection
postConnectionsValidated(user, mapId, source, target) ==
  IF ~requireAuth(user)
    THEN Unauthorized
    ELSE IF \/ mapId \notin MapRowIds
            \/ source \notin RowIds(dbNodes)
            \/ target \notin RowIds(dbNodes)
            \/ source = target
            \/ \E i \in 1..Len(dbConnections) :
                 /\ dbConnections[i].sourceNodeId = source
                 /\ dbConnections[i].targetNodeId = target
      THEN /\ res' = 500
           /\ UNCHANGED <<dbMaps, updatedAt, dbNodes, dbConnections, nextNodeId,
                          nextConnId, deletedNodes>>
      ELSE /\ dbConnections' =
                Append(dbConnections,
                       [id |-> nextConnId, mapId |-> mapId,
                        sourceNodeId |-> source, targetNodeId |-> target])
           /\ nextConnId' = nextConnId + 1
           /\ res' = 201
           /\ UNCHANGED <<dbMaps, updatedAt, dbNodes, nextNodeId, deletedNodes>>

postConnections(user, mapId, source, target) ==
  IF ~requireAuth(user)
    THEN Unauthorized
    ELSE IF \/ mapId \notin MapRowIds
            \/ source \notin RowIds(dbNodes)
            \/ target \notin RowIds(dbNodes)
      THEN \* the insert violates one of the three foreign keys
           /\ res' = 500
           /\ UNCHANGED <<dbMaps, updatedAt, dbNodes, dbConnections, nextNodeId,
                          nextConnId, deletedNodes>>
      ELSE /\ dbConnections' =
                Append(dbConnections,
                       [id |-> nextConnId, mapId |-> mapId,
                        sourceNodeId |-> source, targetNodeId |-> target])
           /\ nextConnId' = nextConnId + 1
           /\ res' = 201
           /\ UNCHANGED <<dbMaps, updatedAt, dbNodes, nextNodeId, deletedNodes>>

PostConnection(user, mapId, source, target) ==
  /\ nextConnId <= MaxDbConns
  /\ postConnections(user, mapId, source, target)
  /\ UNCHANGED <<linVars, canvasVars>>

\* DELETE /api/connections/:id -> storage.deleteConnection
DeleteConnection(user, id) ==
  /\ IF ~requireAuth(user)
       THEN Unauthorized
       ELSE /\ dbConnections' = SelectSeq(dbConnections, LAMBDA c : c.id # id)
            /\ res' = IF id \in RowIds(dbConnections) THEN 204 ELSE 404
            /\ UNCHANGED <<dbMaps, updatedAt, dbNodes, nextNodeId, nextConnId,
                           deletedNodes>>
  /\ UNCHANGED <<linVars, canvasVars>>

\* DELETE /api/maps/:id -> storage.deleteMap(id, req.user.id); the map's
\* nodes go with it (nodes.map_id cascades), and with them their connections
DeleteMap(user, id) ==
  /\ IF ~requireAuth(user)
       THEN Unauthorized
       ELSE LET maps == dbMaps \ {[id |-> id, userId |-> user]}
                rows == SelectSeq(dbNodes, LAMBDA n : n.mapId \in {m.id : m \in maps})
            IN /\ dbMaps' = maps
               /\ updatedAt' = [m \in {row.id : row \in maps} |-> updatedAt[m]]
               /\ dbNodes' = rows
               /\ dbConnections' =
                    onDeleteCascade(dbConnections, RowIds(rows),
                                    {m.id : m \in maps})
               /\ res' = IF maps # dbMaps THEN 204 ELSE 404
               /\ UNCHANGED <<nextNodeId, nextConnId, deletedNodes>>
  /\ UNCHANGED <<linVars, canvasVars>>

\* A route that reads: the answer, the tables as they are
answer(status) ==
  /\ res' = status
  /\ UNCHANGED <<dbMaps, updatedAt, dbNodes, dbConnections, nextNodeId, nextConnId,
                 deletedNodes>>

\* GET /api/maps -> storage.getMaps(req.user.id)
GetMaps(user) ==
  /\ IF ~requireAuth(user) THEN Unauthorized ELSE answer(200)
  /\ UNCHANGED <<linVars, canvasVars>>

\* GET /api/maps/:id and GET /api/maps/:id/export -> storage.getMap
GetMap(user, id) ==
  /\ IF ~requireAuth(user)
       THEN Unauthorized
       ELSE answer(IF getMap(id, user) = {} THEN 404 ELSE 200)
  /\ UNCHANGED <<linVars, canvasVars>>

\* POST /api/maps -> storage.createMap({ ...data, userId: req.user.id }); the
\* new id is one no row has (a map that was deleted has left no trace)
PostMap(user) ==
  /\ \/ ~requireAuth(user) /\ Unauthorized
     \/ /\ requireAuth(user)
        /\ \E id \in MapIds \ MapRowIds :
             /\ dbMaps' = dbMaps \cup {[id |-> id, userId |-> user]}
             /\ updatedAt' = [m \in MapRowIds \cup {id} |->
                                IF m = id THEN now ELSE updatedAt[m]]
        /\ res' = 201
        /\ UNCHANGED <<dbNodes, dbConnections, nextNodeId, nextConnId,
                       deletedNodes>>
  /\ UNCHANGED <<linVars, canvasVars>>

\* PUT /api/maps/:id -> storage.updateMap(id, req.user.id, data)
PutMap(user, id) ==
  /\ IF ~requireAuth(user)
       THEN Unauthorized
       ELSE IF [id |-> id, userId |-> user] \in dbMaps
         THEN /\ updatedAt' = [updatedAt EXCEPT ![id] = now]
              /\ res' = 200
              /\ UNCHANGED <<dbMaps, dbNodes, dbConnections, nextNodeId,
                             nextConnId, deletedNodes>>
         ELSE answer(404)
  /\ UNCHANGED <<linVars, canvasVars>>

\* GET /api/search?q= -> storage.searchMaps(req.user.id, query)
Search(user, hasQuery) ==
  /\ IF ~requireAuth(user)
       THEN Unauthorized
       ELSE answer(IF hasQuery THEN 200 ELSE 400)
  /\ UNCHANGED <<linVars, canvasVars>>

InitStore == StoreInit /\ LinIdle /\ CanvasIdle

NextStore ==
  \/ \E user \in Users \cup {NoUser}, mapId \in MapIds, pos \in Positions :
       PostNode(user, mapId, pos)
  \/ \E user \in Users \cup {NoUser}, id \in 1..MaxDbNodes, pos \in Positions :
       PutNode(user, id, pos)
  \/ \E user \in Users \cup {NoUser}, id \in 1..MaxDbNodes :
       DeleteNode(user, id)
  \/ \E user \in Users \cup {NoUser}, mapId \in MapIds,
        source \in 1..MaxDbNodes, target \in 1..MaxDbNodes :
       PostConnection(user, mapId, source, target)
  \/ \E user \in Users \cup {NoUser}, id \in 1..MaxDbConns :
       DeleteConnection(user, id)
  \/ \E user \in Users \cup {NoUser}, id \in MapIds :
       DeleteMap(user, id)

SpecStore == InitStore /\ [][NextStore]_vars

\* Every route, on tables of fewer rows.
NextRoutes ==
  \/ /\ nextNodeId < MaxDbNodes
     /\ \E user \in Users \cup {NoUser}, mapId \in MapIds, pos \in Positions :
          PostNode(user, mapId, pos)
  \/ \E user \in Users \cup {NoUser}, id \in 1..MaxDbNodes, pos \in Positions :
       PutNode(user, id, pos)
  \/ \E user \in Users \cup {NoUser}, id \in 1..MaxDbNodes :
       DeleteNode(user, id)
  \/ /\ nextConnId < MaxDbConns
     /\ \E user \in Users \cup {NoUser}, mapId \in MapIds,
           source \in 1..MaxDbNodes, target \in 1..MaxDbNodes :
          PostConnection(user, mapId, source, target)
  \/ \E user \in Users \cup {NoUser}, id \in 1..MaxDbConns :
       DeleteConnection(user, id)
  \/ \E user \in Users \cup {NoUser}, id \in MapIds :
       DeleteMap(user, id)
  \/ \E user \in Users \cup {NoUser} : GetMaps(user)
  \/ \E user \in Users \cup {NoUser}, id \in MapIds : GetMap(user, id)
  \/ now <= MaxTime /\ \E user \in Users \cup {NoUser} : PostMap(user)
  \/ now <= MaxTime /\ \E user \in Users \cup {NoUser}, id \in MapIds : PutMap(user, id)
  \/ \E user \in Users \cup {NoUser}, hasQuery \in BOOLEAN : Search(user, hasQuery)

SpecRoutes == InitStore /\ [][NextRoutes]_vars

\* The tables once two nodes were created in map 1.
InitConnect ==
  /\ dbMaps = {[id |-> 1, userId |-> 1], [id |-> 2, userId |-> 2]}
  /\ updatedAt = [m \in {row.id : row \in dbMaps} |-> 0]
  /\ dbNodes = <<[id |-> 1, mapId |-> 1, x |-> 20, y |-> 20],
                 [id |-> 2, mapId |-> 1, x |-> 20, y |-> 20]>>
  /\ dbConnections = <<>>
  /\ nextNodeId = 3
  /\ nextConnId = 1
  /\ res = 201
  /\ deletedNodes = {}
  /\ LinIdle
  /\ CanvasIdle

\* The connection routes, and the node route that removes connections.
NextConnect ==
  \/ \E user \in Users \cup {NoUser}, mapId \in MapIds,
        source \in 1..MaxDbNodes, target \in 1..MaxDbNodes :
       PostConnection(user, mapId, source, target)
  \/ \E user \in Users \cup {NoUser}, id \in 1..MaxDbConns :
       DeleteConnection(user, id)
  \/ \E user \in Users \cup {NoUser}, id \in 1..MaxDbNodes :
       DeleteNode(user, id)

SpecConnect == InitConnect /\ [][NextConnect]_vars

\* ------------------------------------------------------------------------
\* The editor and the server: mutations, their answers, the refetched map
\* ------------------------------------------------------------------------
MaxEditNodes == 3

\* The user who is logged in in the browser
Me == 1
\* The canvas, 800 x 600, does not change size
EditRect == [width |-> Px(800), height |-> Px(600)]

\* apiRequest: the response is ok (otherwise it throws)
resOk(status) == status \in {200, 201, 204}

\* GET /api/maps/:id on the tables as they are after the mutation; the query
\* data is kept if the answer is 404
refetchNodesOnly(m, nodes, conns) ==
  IF [id |-> m.id, userId |-> Me] \in dbMaps
    THEN [id |-> m.id,
          nodes |-> SelectSeq(nodes, LAMBDA n : n.mapId = m.id),
          connections |-> m.connections]
    ELSE m

refetch(m, nodes, conns) ==
  IF [id |-> m.id, userId |-> Me] \in dbMaps
    THEN [id |-> m.id,
          nodes |-> SelectSeq(nodes, LAMBDA n : n.mapId = m.id),
          connections |-> SelectSeq(conns, LAMBDA c : c.mapId = m.id)]
    ELSE m

\* useMutation without onError and without onMutate: what a mutation that
\* failed leaves of the query data
onErrorApplied(m, req) ==
  IF req.op = "createNode"
    THEN [m EXCEPT !.nodes = Append(@, [id |-> nextNodeId, mapId |-> req.mapId,
                                        x |-> req.x, y |-> req.y])]
    ELSE IF req.op = "deleteNode"
      THEN [m EXCEPT !.nodes = SelectSeq(@, LAMBDA n : n.id # req.id)]
      ELSE m

onError(m, req) == m

\* NodeCustomizationPanel.handleDelete, confirmed; the panel is there for the
\* selected node if the map data has it
HandleDelete ==
  /\ selectedNodeId \in NodeIdsOf(map)
  /\ Len(mutations) < MaxMutations
  /\ mutations' = Append(mutations, [op |-> "deleteNode", id |-> selectedNodeId])
  /\ UNCHANGED <<viewVars, selectedNodeId, connectionStartNode, isPanning,
                 panStart, isDragging, dragStart, style, ptr, linVars,
                 storeVars>>

\* The state of the NodeComponents once the map data is m: a node that is new
\* mounts with its initial state, a node that is gone unmounts
mounted(f, m, initial) ==
  [n \in NodeIdsOf(m) |-> IF n \in DOMAIN f THEN f[n] ELSE initial[n]]

\* The node of map data m with id n
nodeOf(m, n) == CHOOSE node \in {m.nodes[k] : k \in 1..Len(m.nodes)} : node.id = n

\* style={{ left: node.x, top: node.y }} when the map data goes from m to m2:
\* React writes left (top) of a node that stays mounted only if node.x
\* (node.y) is another value than at the last render, so what
\* handlePointerMove wrote stays until then; a new node mounts at its position
rerendered(st, m, m2) ==
  [n \in NodeIdsOf(m2) |->
     IF n \in DOMAIN st /\ n \in NodeIdsOf(m)
       THEN Pt(IF nodeOf(m2, n).x = nodeOf(m, n).x THEN st[n].x ELSE nodeOf(m2, n).x,
               IF nodeOf(m2, n).y = nodeOf(m, n).y THEN st[n].y ELSE nodeOf(m2, n).y)
       ELSE Pt(nodeOf(m2, n).x, nodeOf(m2, n).y)]

\* The server answers the i-th mutation under way, sent with the session of
\* user (NoUser: the session has expired), and the mutation's onSuccess runs
\* if the answer is ok: invalidateQueries refetches the map.
Settle(i, user) ==
  LET req == mutations[i]
  IN /\ mutations' = SubSeq(mutations, 1, i - 1)
                       \o SubSeq(mutations, i + 1, Len(mutations))
     /\ CASE req.op = "createNode" ->
               /\ nextNodeId <= MaxEditNodes
               /\ postNodes(user, req.mapId, Pt(req.x, req.y))
          [] req.op = "updateNode" -> putNodes(user, req.id, Pt(req.x, req.y))
          [] req.op = "deleteNode" -> deleteNodes(user, req.id)
          [] req.op = "createConnection" ->
               /\ nextConnId < MaxDbConns
               /\ postConnections(user, req.mapId, req.sourceNodeId,
                                  req.targetNodeId)
     /\ map' = IF resOk(res')
                 THEN refetch(map, dbNodes', dbConnections')
                 ELSE onError(map, req)
     /\ connectionStartNode' =
          IF resOk(res') /\ req.op = "createConnection"
            THEN 0 ELSE connectionStartNode
     /\ selectedNodeId' =
          IF resOk(res') /\ req.op = "deleteNode" THEN 0 ELSE selectedNodeId
     /\ isDragging' = mounted(isDragging, map', [n \in NodeIdsOf(map') |-> FALSE])
     /\ dragStart' = mounted(dragStart, map', [n \in NodeIdsOf(map') |-> Origin])
     /\ style' = rerendered(style, map, map')
     /\ UNCHANGED <<viewVars, isPanning, panStart, ptr, exported, exportResult>>

\* The nodes of a map after k nodes were added on the unpanned, unzoomed
\* canvas, each after the answer to the one before
addedNodes(k) ==
  [i \in 1..k |-> [id |-> i, mapId |-> 1,
                   x |-> addNodePosition(EditRect, Origin, One, i - 1).x,
                   y |-> addNodePosition(EditRect, Origin, One, i - 1).y]]

\* Map 1 is open with the nodes added so far, one of them selected or none.
InitEdit ==
  /\ dbMaps = {[id |-> 1, userId |-> 1], [id |-> 2, userId |-> 2]}
  /\ updatedAt = [m \in {row.id : row \in dbMaps} |-> 0]
  /\ \E k \in 0..(MaxEditNodes - 1) :
       /\ dbNodes = addedNodes(k)
       /\ nextNodeId = k + 1
       /\ map = [id |-> 1, nodes |-> addedNodes(k), connections |-> <<>>]
       /\ selectedNodeId \in 0..k
  /\ dbConnections = <<>>
  /\ nextConnId = 1
  /\ res = 0
  /\ deletedNodes = {}
  /\ exported = FALSE
  /\ exportResult = EmptyExport
  /\ zoomLevel = One
  /\ connectionStartNode = 0
  /\ panOffset = Origin
  /\ isPanning = FALSE
  /\ panStart = Origin
  /\ isDragging = [n \in NodeIdsOf(map) |-> FALSE]
  /\ dragStart = [n \in NodeIdsOf(map) |-> Origin]
  /\ style = [n \in NodeIdsOf(map) |-> Pt(nodeById(n).x, nodeById(n).y)]
  /\ ptr = NoPointer
  /\ mutations = <<>>

\* Add a node, modifier-click a node, click the canvas, delete the selected
\* node; the server answers. The user waits for the answer to a mutation before the next one.
NextEdit ==
  \/ mutations = <<>> /\ HandleAddNode(EditRect)
  \/ /\ mutations = <<>>
     /\ \E n \in NodeIdsOf(map) : NodePointerDown(n, "mouse", Origin, TRUE)
  \/ PointerUp
  \/ \E targetIsCanvas \in BOOLEAN : CanvasClick(targetIsCanvas)
  \/ mutations = <<>> /\ HandleDelete
  \/ \E i \in 1..Len(mutations), user \in {Me, NoUser} : Settle(i, user)

SpecEdit == InitEdit /\ [][NextEdit]_vars

\* ------------------------------------------------------------------------
\* Dragging nodes on a panned and zoomed canvas, and the server's answers
\* ------------------------------------------------------------------------
\* Node n is where "add node" put it on the unpanned, unzoomed canvas.
whereAdded(n) ==
  \E i \in 0..(MaxEditNodes - 1) :
    Pt(nodeById(n).x, nodeById(n).y) = addNodePosition(EditRect, Origin, One, i)

\* Map 1 is open with two nodes, each added before the canvas was panned
\* and zoomed.
InitMove ==
  /\ dbMaps = {[id |-> 1, userId |-> 1], [id |-> 2, userId |-> 2]}
  /\ updatedAt = [m \in {row.id : row \in dbMaps} |-> 0]
  /\ dbNodes = addedNodes(2)
  /\ nextNodeId = 3
  /\ map = [id |-> 1, nodes |-> addedNodes(2), connections |-> <<>>]
  /\ selectedNodeId = 0
  /\ dbConnections = <<>>
  /\ nextConnId = 1
  /\ res = 0
  /\ deletedNodes = {}
  /\ exported = FALSE
  /\ exportResult = EmptyExport
  /\ zoomLevel \in ZoomLevels
  /\ connectionStartNode = 0
  /\ panOffset \in ViewPans
  /\ isPanning = FALSE
  /\ panStart = Origin
  /\ isDragging = [n \in NodeIdsOf(map) |-> FALSE]
  /\ dragStart = [n \in NodeIdsOf(map) |-> Origin]
  /\ style = [n \in NodeIdsOf(map) |-> Pt(nodeById(n).x, nodeById(n).y)]
  /\ ptr = NoPointer
  /\ mutations = <<>>

\* Press a node that has not been moved yet, move, release; the server
\* answers. The user waits for the answer to a mutation before the next press.
NextMove ==
  \/ /\ mutations = <<>>
     /\ \E n \in NodeIdsOf(map), pos \in DragPos :
          whereAdded(n) /\ NodePointerDown(n, "mouse", pos, FALSE)
  \/ \E pos \in DragPos : PointerMove(pos)
  \/ PointerUp
  \/ \E i \in 1..Len(mutations), user \in {Me, NoUser} : Settle(i, user)

SpecMove == InitMove /\ [][NextMove]_vars

\* Map 1 is open on the unpanned, unzoomed canvas with two nodes.
InitSync ==
  /\ InitMove
  /\ zoomLevel = One
  /\ panOffset = Origin

\* What the canvas sends to the server: add, connect and move. The user waits
\* for the answer to a mutation before the next one, adds a node while none
\* has been added and drags a node while none has been moved.
NextSync ==
  \/ /\ mutations = <<>>
     /\ Len(dbNodes) = Len(addedNodes(2))
     /\ HandleAddNode(EditRect)
  \/ /\ mutations = <<>>
     /\ \E n \in NodeIdsOf(map), ctrlKey \in BOOLEAN :
          /\ ~ctrlKey => \A m \in NodeIdsOf(map) : whereAdded(m)
          /\ NodePointerDown(n, "mouse", Origin, ctrlKey)
  \/ (\E n \in NodeIdsOf(map) : isDragging[n]) /\ \E pos \in DragPos : PointerMove(pos)
  \/ PointerUp
  \/ \E i \in 1..Len(mutations), user \in {Me, NoUser} : Settle(i, user)

SpecSync == InitSync /\ [][NextSync]_vars

\* ------------------------------------------------------------------------
\* Properties of the outline
\* ------------------------------------------------------------------------
Edge(s, t) == [sourceNodeId |-> s, targetNodeId |-> t]

\* The line of which line i is a child: the nearest earlier line one level up
\* (0 when there is none).
ParentIndex(md, i) ==
  LET ups == {j \in 1..(i - 1) : md[j].level = md[i].level - 1}
  IN IF ups = {} THEN 0 ELSE CHOOSE j \in ups : \A k \in ups : k <= j

\* The position in map.connections of the first connection s -> t (0: none).
FirstConnection(m, s, t) ==
  LET ks == {k \in 1..Len(m.connections) :
               /\ m.connections[k].sourceNodeId = s
               /\ m.connections[k].targetNodeId = t}
  IN IF ks = {} THEN 0 ELSE CHOOSE k \in ks : \A l \in ks : k <= l

\* The line on which node id n is written (0: none).
LineOf(md, n) ==
  LET is == {i \in 1..Len(md) : md[i].id = n}
  IN IF is = {} THEN 0 ELSE CHOOSE i \in is : \A j \in is : i <= j

\* C1: whatever the connections are (cycles, self-loops, several parents,
\* duplicate edges, endpoints that are no node), the outline holds every node
\* of the map exactly once, so it has as many lines as the map has nodes, and
\* no line has a negative level.
C1_EveryNodeExactlyOnce ==
  exported =>
    LET md == exportResult.markdown
    IN /\ Len(md) = Len(map.nodes)
       /\ \A n \in NodeIdsOf(map) :
            Cardinality({i \in 1..Len(md) : md[i].id = n}) = 1
       /\ \A i \in 1..Len(md) : md[i].level >= 0

\* C1 witness: three nodes under a self-loop and a duplicated edge have been
\* exported.
C1_Witness ==
  /\ exported
  /\ Len(map.nodes) = 3
  /\ map.connections = <<Edge(1, 1), Edge(2, 3), Edge(2, 3)>>
  /\ Len(exportResult.markdown) = 3

\* C2: the traversal is finite on every graph: addNodeToMarkdown is called at
\* most once per node from the top level and once per connection, an id gets
\* past the visited check at most once, and no node is written twice. On the
\* cycle 1 -> 2 -> 3 -> 1 the three nodes are written once each and the edge
\* back into 1 is one call that returns at the visited check.
C2_CyclesVisitedOnce ==
  exported =>
    LET md == exportResult.markdown
    IN /\ exportResult.calls <= Len(map.nodes) + Len(map.connections)
       /\ exportResult.expansions = Cardinality(exportResult.visited)
       /\ \A i, j \in 1..Len(md) : i # j => md[i].id # md[j].id
       /\ (Len(map.nodes) = 3
           /\ map.connections = <<Edge(1, 2), Edge(2, 3), Edge(3, 1)>>)
          => /\ md = <<[id |-> 1, level |-> 0], [id |-> 2, level |-> 1],
                       [id |-> 3, level |-> 2]>>
             /\ exportResult.calls = 4
             /\ exportResult.expansions = 3

\* C2 witness: the pure cycle has been exported.
C2_Witness ==
  /\ exported
  /\ Len(map.nodes) = 3
  /\ map.connections = <<Edge(1, 2), Edge(2, 3), Edge(3, 1)>>
  /\ exportResult.calls = 4

\* C3: a line below level 0 is a child of the nearest earlier line one level
\* up: the map has a connection from that node to it, and the children of one
\* line follow each other in the order of their (first) connections from it.
\* A connection's target that is written after its source lies in the
\* source's subtree. For 1 -> 2, 1 -> 3 the outline is 1 at level 0, then 2
\* and 3 at level 1.
C3_ChildrenInConnectionOrder ==
  exported =>
    LET md == exportResult.markdown
    IN /\ \A i \in 1..Len(md) :
            md[i].level > 0 =>
              /\ ParentIndex(md, i) > 0
              /\ FirstConnection(map, md[ParentIndex(md, i)].id, md[i].id) > 0
       /\ \A i, j \in 1..Len(md) :
            (/\ i < j
             /\ md[i].level > 0
             /\ md[j].level = md[i].level
             /\ ParentIndex(md, i) = ParentIndex(md, j))
            => FirstConnection(map, md[ParentIndex(md, i)].id, md[i].id)
                 < FirstConnection(map, md[ParentIndex(md, j)].id, md[j].id)
       /\ \A k \in 1..Len(map.connections) :
            LET s == LineOf(md, map.connections[k].sourceNodeId)
                t == LineOf(md, map.connections[k].targetNodeId)
            IN (s > 0 /\ t > s) =>
                 \A l \in (s + 1)..t : md[l].level > md[s].level
       /\ (Len(map.nodes) = 3 /\ map.connections = <<Edge(1, 2), Edge(1, 3)>>)
          => md = <<[id |-> 1, level |-> 0], [id |-> 2, level |-> 1],
                    [id |-> 3, level |-> 1]>>

\* C3 witness: a root whose two children were connected in the order 3, 2 has
\* been exported, and 3 is written before 2.
C3_Witness ==
  /\ exported
  /\ Len(map.nodes) = 3
  /\ map.connections = <<Edge(1, 3), Edge(1, 2)>>
  /\ exportResult.markdown = <<[id |-> 1, level |-> 0], [id |-> 3, level |-> 1],
                               [id |-> 2, level |-> 1]>>

\* C4: a map without nodes gives an empty outline, and a map without
\* connections gives its nodes in their own order, all at level 0.
C4_NoConnectionsFlat ==
  (exported /\ map.connections = <<>>) =>
    exportResult.markdown =
      [i \in 1..Len(map.nodes) |-> [id |-> map.nodes[i].id, level |-> 0]]

\* C4 witness: three unconnected nodes have been exported.
C4_Witness ==
  /\ exported
  /\ map.connections = <<>>
  /\ Len(map.nodes) = 3
  /\ Len(exportResult.markdown) = 3

\* C5: a connection with an endpoint that is no node of the map does not count:
\* the outline is the one the map gives without such connections.
C5_DanglingConnectionsExcluded ==
  exported =>
    exportResult.markdown = exportMarkdown(renderable(map)).markdown

\* ------------------------------------------------------------------------
\* Properties of the store
\* ------------------------------------------------------------------------
\* C6: through every sequence of creations and deletions, each stored
\* connection references two stored nodes, and a deleted node is gone for
\* good: it is no row, no connection names it as source or target, and no
\* owner's map, linearized, writes it.
C6_DeleteNodeCascades ==
  /\ \A i \in 1..Len(dbConnections) :
       /\ dbConnections[i].sourceNodeId \in RowIds(dbNodes)
       /\ dbConnections[i].targetNodeId \in RowIds(dbNodes)
  /\ \A d \in deletedNodes :
       /\ d \notin RowIds(dbNodes)
       /\ \A i \in 1..Len(dbConnections) :
            /\ dbConnections[i].sourceNodeId # d
            /\ dbConnections[i].targetNodeId # d
       /\ \A m \in dbMaps : \A stored \in getMap(m.id, m.userId) :
            LET md == exportMarkdown(stored).markdown
            IN \A l \in 1..Len(md) : md[l].id # d

\* C6 witness: node 1 has been deleted after two connections were created;
\* the self-loop of node 2 is the one connection left.
C6_Witness ==
  /\ deletedNodes = {1}
  /\ nextConnId = 3
  /\ Len(dbConnections) = 1
  /\ dbConnections[1].sourceNodeId = 2
  /\ dbConnections[1].targetNodeId = 2
  /\ RowIds(dbNodes) = {2}
  /\ res = 204

\* ------------------------------------------------------------------------
\* Properties of the viewport
\* ------------------------------------------------------------------------
RoundTrip(p) == toLogical(toScreen(p, panOffset, zoomLevel), panOffset, zoomLevel)

C8_ZoomWithinBounds ==
  /\ ZoomMin <= zoomLevel
  /\ zoomLevel <= ZoomMax

\* C8 witness: the zoom level has been brought down to 0.1 and clamped there.
C8_Witness ==
  /\ zoomLevel = ZoomMin
  /\ zoomOut(zoomLevel) = ZoomMin
  /\ Over(zoomLevel, Num(12, 10)) < ZoomMin

\* ------------------------------------------------------------------------
\* Properties of the gestures
\* ------------------------------------------------------------------------

\* C9: while a touch that went down on the empty canvas is pressed, the
\* canvas is not panning as long as the pointer has stayed within 10 px
\* (|dx| + |dy|) of where it went down, and it is panning once the pointer
\* has been 11 px or more away.
C9_TouchPanThreshold ==
  (ptr.down /\ ptr.type = "touch" /\ ptr.target = 0) =>
    /\ ~ptr.crossed => ~isPanning
    /\ ptr.crossed => isPanning

\* The updateNode calls made so far for node n
moveMutations(ms, n) ==
  Cardinality({i \in 1..Len(ms) : ms[i].op = "updateNode" /\ ms[i].id = n})

\* C10: a pointer-move makes no persistence call; the drag of a node ends in
\* a pointer-up step, which makes exactly one updateNode call for that node,
\* and no other step makes an updateNode call for it; the pointer-up that
\* ends the only open drag makes exactly one call in all.
C10_OneCommitPerDrag ==
  [][ /\ (\E pos \in DragPos : PointerMove(pos)) => mutations' = mutations
      /\ \A n \in NodeIdsOf(map) :
           IF isDragging[n] /\ ~isDragging'[n]
             THEN /\ PointerUp
                  /\ moveMutations(mutations', n) = moveMutations(mutations, n) + 1
             ELSE moveMutations(mutations', n) = moveMutations(mutations, n)
      /\ (PointerUp /\ Len(draggingNodes) = 1)
           => Len(mutations') = Len(mutations) + 1
    ]_vars

\* C10 witness: node 1 was pressed at (0, 0), moved, and released at (10, 0);
\* the one call made since the map was opened moves it by 10 px to (30, 20).
C10_Witness ==
  /\ ~ptr.down
  /\ ~isDragging[1]
  /\ style[1] = Pt(Px(30), Px(20))
  /\ mutations = <<[op |-> "updateNode", id |-> 1, x |-> Px(30), y |-> Px(20)]>>

\* ------------------------------------------------------------------------
\* Properties of "add node"
\* ------------------------------------------------------------------------
\* The viewport centre in logical coordinates
viewportCentre(rect) == toLogical(rectCenter(rect), panOffset, zoomLevel)

\* The grid offset of the node added as number index (from 0)
gridOffset(index) ==
  Pt((index % 3) * Px(160) - Px(160), (index \div 3) * Px(120) - Px(60))

\* C11: the node that "add node" creates when the map has index nodes is
\* positioned at the viewport centre in logical coordinates plus
\* ((index mod 3) * 160 - 160, floor(index / 3) * 120 - 60); so the fourth
\* node is created 120 units below the row of the first three.
C11_AddNodeGrid ==
  [][ \A rect \in CanvasRects :
        HandleAddNode(rect) =>
          LET created == mutations'[Len(mutations')]
              index == Len(map.nodes)
          IN /\ created.x = viewportCentre(rect).x + gridOffset(index).x
             /\ created.y = viewportCentre(rect).y + gridOffset(index).y
             /\ index = 3 =>
                  created.y = addNodePosition(rect, panOffset, zoomLevel, 0).y
                              + Px(120)
    ]_vars

\* C11, amended: the node is created with its top-left corner at the viewport
\* centre minus half the default size (60, 30) plus the grid offset, each
\* coordinate raised to 20 if it is less; the fourth node is created 120 units
\* below the row of the first three if that row is not raised to 20.
C11_AddNodeGridClamped ==
  [][ \A rect \in CanvasRects :
        HandleAddNode(rect) =>
          LET created == mutations'[Len(mutations')]
              index == Len(map.nodes)
              first == viewportCentre(rect).y - Px(30) + gridOffset(0).y
          IN /\ created.op = "createNode"
             /\ created.mapId = map.id
             /\ created.x = Max(Px(20), viewportCentre(rect).x - Px(60)
                                         + gridOffset(index).x)
             /\ created.y = Max(Px(20), viewportCentre(rect).y - Px(30)
                                         + gridOffset(index).y)
             /\ (index = 3 /\ first >= Px(20)) =>
                  created.y = addNodePosition(rect, panOffset, zoomLevel, 0).y
                              + Px(120)
    ]_vars

\* C11 witness: with three nodes in the map, zoom 1, no pan and a canvas of
\* 800 x 600, the fourth node is created at (180, 330), the first row being
\* at y = 210; and on the canvas of 320 x 200 a node's y is raised to 20.
C11_Witness ==
  /\ Len(map.nodes) = 3
  /\ zoomLevel = One
  /\ panOffset = Origin
  /\ addNodePosition([width |-> Px(800), height |-> Px(600)],
                     panOffset, zoomLevel, 0).y = Px(210)
  /\ addNodeSpaced([width |-> Px(320), height |-> Px(200)],
                   panOffset, zoomLevel, 0).y < Px(20)
  /\ mutations = <<[op |-> "createNode", mapId |-> 1,
                    x |-> Px(180), y |-> Px(330)]>>

\* C12: no two stored nodes overlap. (Here every node was created by "add
\* node" on an unchanged viewport, and was at most clicked since.)
C12_AddedNodesDoNotOverlap ==
  \A i, j \in 1..Len(dbNodes) :
    i < j => \/ Abs(dbNodes[i].x - dbNodes[j].x) >= Px(120)
             \/ Abs(dbNodes[i].y - dbNodes[j].y) >= Px(60)

\* ------------------------------------------------------------------------
\* Properties of connecting nodes
\* ------------------------------------------------------------------------
\* C13: while a connection source S is pending, a modifier-click on another
\* node T makes exactly one createConnection call, with source S, target T
\* and the id of the open map; a modifier-click on S itself clears the
\* pending source and makes no call.
C13_ModifierClickConnects ==
  [][ \A n \in NodeIdsOf(map) :
        (NodePointerDown(n, "mouse", Origin, TRUE) /\ connectionStartNode # 0) =>
          IF n # connectionStartNode
            THEN mutations' =
                   Append(mutations,
                          [op |-> "createConnection", mapId |-> map.id,
                           sourceNodeId |-> connectionStartNode,
                           targetNodeId |-> n])
            ELSE /\ connectionStartNode' = 0
                 /\ mutations' = mutations
    ]_vars

\* C13 witness: with node 1 pending, node 2 was modifier-clicked: the call
\* for the connection from 1 to 2 is under way.
C13_Witness ==
  /\ connectionStartNode = 1
  /\ ptr.down /\ ptr.target = 2
  /\ mutations = <<[op |-> "createConnection", mapId |-> 1,
                    sourceNodeId |-> 1, targetNodeId |-> 2]>>

\* C14: while a connection source is pending, a click on the empty canvas
\* clears it and makes no call.
C14_CanvasClickCancelsPending ==
  [][ (CanvasClick(TRUE) /\ connectionStartNode # 0) =>
        /\ connectionStartNode' = 0
        /\ mutations' = mutations
    ]_vars

\* ------------------------------------------------------------------------
\* Properties of the end of a gesture
\* ------------------------------------------------------------------------
\* C15: once no pointer is pressed, whether the last one was released or
\* cancelled, no node is being dragged and the canvas is not panning (so no
\* document listener is left to move the pan offset or commit a node move).
C15_ListenersGoneAfterGesture ==
  ~ptr.down => /\ \A n \in NodeIdsOf(map) : ~isDragging[n]
               /\ ~isPanning

\* ------------------------------------------------------------------------
\* Properties of the routes
\* ------------------------------------------------------------------------
\* C16: deleting a node or a connection that was there and is gone already
\* changes no table and is answered with an ok status.
C16_DeleteIdempotent ==
  [][ /\ \A user \in Users, id \in 1..MaxDbNodes :
           (DeleteNode(user, id) /\ id < nextNodeId /\ id \notin RowIds(dbNodes))
             => /\ resOk(res')
                /\ UNCHANGED <<dbMaps, dbNodes, dbConnections>>
      /\ \A user \in Users, id \in 1..MaxDbConns :
           (DeleteConnection(user, id) /\ id < nextConnId
              /\ id \notin RowIds(dbConnections))
             => /\ resOk(res')
                /\ UNCHANGED <<dbMaps, dbNodes, dbConnections>>
    ]_vars

\* ------------------------------------------------------------------------
\* Properties of failed mutations
\* ------------------------------------------------------------------------
\* C17: the step that sends a mutation leaves the map data that is rendered
\* as it is, and so does the step in which a create-node, create-connection
\* or delete-node call fails: after the failure the rendered nodes and
\* connections are what they were before the call.
C17_FailedCallKeepsGraph ==
  [][ /\ Len(mutations') > Len(mutations) => map' = map
      /\ \A i \in 1..Len(mutations), user \in {Me, NoUser} :
           ( /\ Settle(i, user)
             /\ mutations[i].op \in {"createNode", "createConnection", "deleteNode"}
             /\ ~resOk(res') )
             => map' = map
    ]_vars

\* C17 witness: a create-connection call has failed with 500 (its source node
\* had been deleted while it was the pending source); no connection is stored
\* or rendered.
C17_Witness ==
  /\ res = 500
  /\ mutations = <<>>
  /\ deletedNodes # {}
  /\ connectionStartNode \in deletedNodes
  /\ dbConnections = <<>>
  /\ map.connections = <<>>
  /\ map.nodes = SelectSeq(dbNodes, LAMBDA n : n.mapId = map.id)

\* A request without a session: some route is called by NoUser
UnauthenticatedRequest ==
  \/ GetMaps(NoUser)
  \/ PostMap(NoUser)
  \/ \E id \in MapIds : GetMap(NoUser, id) \/ PutMap(NoUser, id)
                        \/ DeleteMap(NoUser, id)
  \/ \E hasQuery \in BOOLEAN : Search(NoUser, hasQuery)
  \/ \E mapId \in MapIds, pos \in Positions : PostNode(NoUser, mapId, pos)
  \/ \E id \in 1..MaxDbNodes, pos \in Positions : PutNode(NoUser, id, pos)
  \/ \E id \in 1..MaxDbNodes : DeleteNode(NoUser, id)
  \/ \E mapId \in MapIds, source \in 1..MaxDbNodes, target \in 1..MaxDbNodes :
       PostConnection(NoUser, mapId, source, target)
  \/ \E id \in 1..MaxDbConns : DeleteConnection(NoUser, id)

\* C18: every map, node, connection, search and export route answers a
\* request without a session with 401 and leaves every table as it is (the
\* answer carries nothing read from the tables).
C18_UnauthenticatedRejected ==
  [][ UnauthenticatedRequest =>
        /\ res' = 401
        /\ UNCHANGED <<dbMaps, dbNodes, dbConnections, nextNodeId, nextConnId,
                       deletedNodes>>
    ]_vars

\* C18 witness: with a node and a connection stored, the last request was
\* answered 401.
C18_Witness ==
  /\ res = 401
  /\ dbNodes # <<>>
  /\ dbConnections # <<>>

\* ------------------------------------------------------------------------
\* More properties of the outline
\* ------------------------------------------------------------------------
\* The ids that are the target of some connection
Targets(m) == {m.connections[k].targetNodeId : k \in 1..Len(m.connections)}

\* C19: the level of a line is the depth at which the depth-first traversal
\* first met the node: a line below level 0 has a connection from the nearest
\* earlier line one level up; a node that is no connection's target is at
\* level 0, and such nodes come in the order of map.nodes. For 1 -> 2, 2 -> 3,
\* 1 -> 3 node 3 is at level 2 (not 1, its shortest distance from node 1).
C19_DepthOfFirstVisit ==
  exported =>
    LET md == exportResult.markdown
    IN /\ \A i \in 1..Len(md) :
            md[i].level > 0 =>
              \E j \in 1..(i - 1) :
                /\ md[j].level = md[i].level - 1
                /\ \A k \in (j + 1)..(i - 1) : md[k].level # md[i].level - 1
                /\ \E c \in 1..Len(map.connections) :
                     /\ map.connections[c].sourceNodeId = md[j].id
                     /\ map.connections[c].targetNodeId = md[i].id
       /\ \A a \in 1..Len(map.nodes) :
            map.nodes[a].id \notin Targets(map) =>
              /\ LineOf(md, map.nodes[a].id) > 0
              /\ md[LineOf(md, map.nodes[a].id)].level = 0
              /\ \A b \in (a + 1)..Len(map.nodes) :
                   map.nodes[b].id \notin Targets(map) =>
                     LineOf(md, map.nodes[a].id) < LineOf(md, map.nodes[b].id)
       /\ (Len(map.nodes) = 3
           /\ map.connections = <<Edge(1, 2), Edge(2, 3), Edge(1, 3)>>)
          => md = <<[id |-> 1, level |-> 0], [id |-> 2, level |-> 1],
                    [id |-> 3, level |-> 2]>>

\* C19 witness: 1 -> 2, 2 -> 3, 1 -> 3 has been exported; node 3, one
\* connection away from the root, is at level 2.
C19_Witness ==
  /\ exported
  /\ Len(map.nodes) = 3
  /\ map.connections = <<Edge(1, 2), Edge(2, 3), Edge(1, 3)>>
  /\ exportResult.markdown[3] = [id |-> 3, level |-> 2]

\* The traversal state once the roots are done
afterRoots == startWithRootNodes(map, rootNodes(map), EmptyExport)

\* C20: the outline is what the roots gave, followed by the nodes that were
\* not visited from any root, in the order of map.nodes, each at level 0.
C20_UnvisitedAppendedFlat ==
  exported =>
    LET rest == SelectSeq(map.nodes, LAMBDA n : n.id \notin afterRoots.visited)
    IN exportResult.markdown =
         afterRoots.markdown
           \o [i \in 1..Len(rest) |-> [id |-> rest[i].id, level |-> 0]]

\* C20, amended: the outline is what the roots gave, followed by exactly the
\* nodes that were not visited from any root; there, a line at level 0 is the
\* first node of map.nodes that no earlier line has, and a line below level 0
\* has a connection from the nearest earlier line one level up, which is one
\* of the appended lines.
C20_UnvisitedAppendedInOrder ==
  exported =>
    LET md == exportResult.markdown
        done == Len(afterRoots.markdown)
        written(i) == {md[j].id : j \in 1..(i - 1)}
    IN /\ Len(md) >= done
       /\ SubSeq(md, 1, done) = afterRoots.markdown
       /\ {md[i].id : i \in (done + 1)..Len(md)}
            = {n \in NodeIdsOf(map) : n \notin afterRoots.visited}
       /\ \A i \in (done + 1)..Len(md) :
            IF md[i].level = 0
              THEN \E a \in 1..Len(map.nodes) :
                     /\ map.nodes[a].id = md[i].id
                     /\ \A b \in 1..(a - 1) : map.nodes[b].id \in written(i)
              ELSE /\ ParentIndex(md, i) > done
                   /\ FirstConnection(map, md[ParentIndex(md, i)].id, md[i].id) > 0

\* C20 witness: node 1 is the only root and 2 -> 3 -> 2 is a cycle no root
\* reaches; node 2 is appended at level 0 and node 3 below it.
C20_Witness ==
  /\ exported
  /\ Len(map.nodes) = 3
  /\ map.connections = <<Edge(2, 3), Edge(3, 2)>>
  /\ afterRoots.markdown = <<[id |-> 1, level |-> 0]>>
  /\ exportResult.markdown = <<[id |-> 1, level |-> 0], [id |-> 2, level |-> 0],
                               [id |-> 3, level |-> 1]>>

\* ------------------------------------------------------------------------
\* Properties of moving a node
\* ------------------------------------------------------------------------
\* The updateNode call the step has added, if it has added one
committed(ms) == ms[Len(ms)]

\* C21: the pointer-up that ends the drag of a node commits the node's
\* position before the drag plus the pointer's displacement since the
\* pointer-down divided by the zoom level, whatever the pan offset and the
\* zoom level are; so a release where the node was pressed commits the
\* position the node has.
C21_DragCommitsDisplacement ==
  [][ (PointerUp /\ ptr.target # 0 /\ isDragging[ptr.target]) =>
        LET node == nodeById(ptr.target)
            d == Minus(ptr.pos, ptr.downPos)
        IN /\ Len(mutations') = Len(mutations) + 1
           /\ committed(mutations').op = "updateNode"
           /\ committed(mutations').id = ptr.target
           /\ committed(mutations').x = node.x + Over(d.x, zoomLevel)
           /\ committed(mutations').y = node.y + Over(d.y, zoomLevel)
    ]_vars

\* C22: the pointer-up that commits a node move leaves the node, in the map
\* data or as it is rendered, at the committed position while the call is
\* under way, and the node is still there after the call has failed.
C22_MoveIsOptimistic ==
  [][ /\ (PointerUp /\ ptr.target # 0 /\ isDragging[ptr.target]) =>
           LET p == Pt(committed(mutations').x, committed(mutations').y)
           IN \/ Pt(nodeOf(map', ptr.target).x, nodeOf(map', ptr.target).y) = p
              \/ style'[ptr.target] = p
      /\ \A i \in 1..Len(mutations), user \in {Me, NoUser} :
           (Settle(i, user) /\ mutations[i].op = "updateNode" /\ ~resOk(res')) =>
             LET p == Pt(mutations[i].x, mutations[i].y)
                 n == mutations[i].id
             IN \/ Pt(nodeOf(map', n).x, nodeOf(map', n).y) = p
                \/ style'[n] = p
    ]_vars

\* C23: when no mutation is under way, the nodes and connections of the map
\* data are the stored ones of the map (the answer to the last mutation that
\* succeeded brought the refetch, a mutation that failed changed no table).
C23_MapDataIsStored ==
  mutations = <<>> =>
    /\ map.nodes = SelectSeq(dbNodes, LAMBDA n : n.mapId = map.id)
    /\ map.connections = SelectSeq(dbConnections, LAMBDA c : c.mapId = map.id)

\* C23 witness: node 1 was dragged by 10 px and connected to node 2, and both
\* calls have succeeded: the map data and the tables have node 1 at
\* (190, 210) and the connection.
C23_Witness ==
  /\ mutations = <<>>
  /\ resOk(res)
  /\ nodeOf(map, 1).x = Px(190)
  /\ dbNodes[1].x = Px(190)
  /\ Len(map.connections) = 1
  /\ map.connections = dbConnections
  /\ Len(map.nodes) = 3

\* ------------------------------------------------------------------------
\* Properties of the update timestamp
\* ------------------------------------------------------------------------
\* The map that owns the stored row with this id
ownerOf(rows, id) == (CHOOSE row \in {rows[i] : i \in 1..Len(rows)} : row.id = id).mapId

\* C24: after a node or a connection was created, updated or deleted with
\* success, the updated_at of the map it belongs to is later than before.
C24_MutationsRefreshUpdatedAt ==
  [][ \A user \in Users :
        /\ \A mapId \in MapIds, pos \in Positions :
             (PostNode(user, mapId, pos) /\ resOk(res'))
               => updatedAt'[mapId] > updatedAt[mapId]
        /\ \A id \in RowIds(dbNodes) :
             /\ (\E pos \in Positions : PutNode(user, id, pos) /\ resOk(res'))
                  => updatedAt'[ownerOf(dbNodes, id)] > updatedAt[ownerOf(dbNodes, id)]
             /\ (DeleteNode(user, id) /\ resOk(res'))
                  => updatedAt'[ownerOf(dbNodes, id)] > updatedAt[ownerOf(dbNodes, id)]
        /\ \A mapId \in MapIds, source \in 1..MaxDbNodes, target \in 1..MaxDbNodes :
             (PostConnection(user, mapId, source, target) /\ resOk(res'))
               => updatedAt'[mapId] > updatedAt[mapId]
        /\ \A id \in RowIds(dbConnections) :
             (DeleteConnection(user, id) /\ resOk(res'))
               => updatedAt'[ownerOf(dbConnections, id)]
                    > updatedAt[ownerOf(dbConnections, id)]
    ]_vars

\* ------------------------------------------------------------------------
\* Properties of the gesture kinds
\* ------------------------------------------------------------------------
\* C25: no node is being dragged while the canvas is panning; while a pointer
\* that went down on a node is pressed the canvas is not panning, and while
\* a pointer that went down on the canvas is pressed no node is being
\* dragged.
C25_DragAndPanExclusive ==
  /\ ~(isPanning /\ \E n \in NodeIdsOf(map) : isDragging[n])
  /\ (ptr.down /\ ptr.target # 0) => ~isPanning
  /\ (ptr.down /\ ptr.target = 0) => \A n \in NodeIdsOf(map) : ~isDragging[n]

\* C26: with no connection source pending, a pointer-down on a node with the
\* modifier key held makes that node the pending source and starts no drag:
\* the selected node stays, no call is made, and the pointer-up that follows
\* makes no updateNode call.
C26_ModifierPressStartsNoDrag ==
  [][ /\ \A n \in NodeIdsOf(map) :
           (NodePointerDown(n, "mouse", Origin, TRUE) /\ connectionStartNode = 0) =>
             /\ connectionStartNode' = n
             /\ isDragging' = isDragging
             /\ dragStart' = dragStart
             /\ selectedNodeId' = selectedNodeId
             /\ mutations' = mutations
      /\ PointerUp =>
           \A n \in NodeIdsOf(map) :
             moveMutations(mutations', n) = moveMutations(mutations, n)
    ]_vars

\* C26 witness: node 2 is selected and node 1 was pressed with the modifier
\* key: node 1 is the pending source, it is not being dragged, node 2 is
\* still selected and no call was made.
C26_Witness ==
  /\ ptr.down /\ ptr.target = 1
  /\ connectionStartNode = 1
  /\ ~isDragging[1]
  /\ selectedNodeId = 2
  /\ mutations = <<>>

\* ------------------------------------------------------------------------
\* Properties of panning
\* ------------------------------------------------------------------------
\* C27: a mouse pointer-down on the canvas starts a pan if it is made with
\* the middle button, or with the primary button while shift is held; any
\* other mouse pointer-down leaves isPanning and panStart as they are. No
\* pointer-down changes the pan offset, and while the canvas is not panning
\* no pointer-move changes it.
C27_PanStartsOnMiddleOrShift ==
  [][ /\ \A button \in Buttons, shiftKey \in BOOLEAN, pos \in PointerPos :
           CanvasPointerDown("mouse", button, shiftKey, pos) =>
             /\ IF button = 1 \/ (button = 0 /\ shiftKey)
                  THEN /\ isPanning'
                       /\ panStart' = Minus(pos, panOffset)
                  ELSE /\ isPanning' = isPanning
                       /\ panStart' = panStart
             /\ panOffset' = panOffset
      /\ ((\E pos \in PointerPos : PointerMove(pos)) /\ ~isPanning)
           => panOffset' = panOffset
    ]_vars

\* C27 witness: the primary button went down on the canvas without shift and
\* the mouse has moved by more than 10 px: the canvas is not panning and the
\* pan offset is (0, 0).
C27_Witness ==
  /\ ptr.down /\ ptr.type = "mouse" /\ ptr.target = 0
  /\ ptr.crossed
  /\ ~isPanning
  /\ panStart = Origin
  /\ panOffset = Origin

\* The pan offset when the pressed pointer went down, if that pointer-down
\* set panStart
offsetAtPanStart == Minus(ptr.downPos, panStart)

\* C28: the pointer-down that starts a pan keeps the pan offset and notes it
\* (panStart is the pointer position minus the offset); while the canvas is
\* panning, a pointer-move to pos makes the pan offset the noted offset plus
\* pos minus where the pointer went down, and the noted offset stays; no
\* step of a pan makes a call, changes the zoom level or changes a node of
\* the map or of the table.
C28_PanFollowsPointer ==
  [][ /\ \A button \in Buttons, shiftKey \in BOOLEAN, pos \in PointerPos :
           ( /\ CanvasPointerDown("mouse", button, shiftKey, pos)
             /\ (button = 1 \/ (button = 0 /\ shiftKey)) ) =>
             /\ isPanning'
             /\ panOffset' = panOffset
             /\ Minus(ptr'.downPos, panStart') = panOffset
      /\ \A pos \in PointerPos :
           (PointerMove(pos) /\ isPanning) =>
             /\ panOffset'.x = offsetAtPanStart.x + (pos.x - ptr.downPos.x)
             /\ panOffset'.y = offsetAtPanStart.y + (pos.y - ptr.downPos.y)
             /\ panStart' = panStart
             /\ ptr'.downPos = ptr.downPos
      /\ (isPanning \/ isPanning') =>
           /\ mutations' = mutations
           /\ zoomLevel' = zoomLevel
           /\ map' = map
           /\ dbNodes' = dbNodes
    ]_vars

\* C28 witness: the canvas was panned to (6, 5); a second pan started at
\* (10, 0) and the pointer is at (0, 0) now: the pan offset is (-4, 5).
C28_Witness ==
  /\ ptr.down /\ ptr.target = 0 /\ isPanning
  /\ ptr.downPos = Pt(Px(10), 0)
  /\ ptr.pos = Origin
  /\ offsetAtPanStart = Pt(Px(6), Px(5))
  /\ panOffset = Pt(Px(0 - 4), Px(5))
  /\ mutations = <<>>

\* ------------------------------------------------------------------------
\* Properties of the wheel
\* ------------------------------------------------------------------------
\* C29: a wheel event multiplies the zoom level by 0.9 if deltaY is positive
\* and by 1.1 otherwise, and brings the product into 0.1 .. 3; the pan
\* offset, the selected node, the pending connection source, the nodes of
\* the map and of the table and the calls made stay as they are.
C29_WheelChangesZoomOnly ==
  [][ \A deltaYPositive \in BOOLEAN :
        HandleWheel(deltaYPositive) =>
          /\ LET product == Times(zoomLevel, IF deltaYPositive THEN Num(9, 10)
                                                               ELSE Num(11, 10))
             IN zoomLevel' = IF product < ZoomMin THEN ZoomMin
                             ELSE IF product > ZoomMax THEN ZoomMax
                             ELSE product
          /\ panOffset' = panOffset
          /\ selectedNodeId' = selectedNodeId
          /\ connectionStartNode' = connectionStartNode
          /\ map' = map
          /\ dbNodes' = dbNodes
          /\ style' = style
          /\ mutations' = mutations
    ]_vars

\* C29 witness: on a panned canvas one wheel event with positive deltaY has
\* taken the zoom level from 1 to 0.9; the pan offset is what it was.
C29_Witness ==
  /\ zoomLevel = Num(9, 10)
  /\ panOffset = Pt(Px(10), 0)

\* ------------------------------------------------------------------------
\* Properties of the selection
\* ------------------------------------------------------------------------
\* C30: a pointer-down on a node without the modifier key makes it the
\* selected node; a press and release on the empty canvas without a modifier
\* key, by mouse or as a touch tap, clears the selection (at the latest with
\* the click that ends it: no click on the empty canvas leaves a node
\* selected), and a touch tap on the empty canvas leaves the pan offset as
\* it is.
C30_PressSelectsAndDeselects ==
  /\ [][ /\ \A n \in NodeIdsOf(map) :
             NodePointerDown(n, "mouse", Origin, FALSE) => selectedNodeId' = n
         /\ (ptr.type = "touch" /\ ptr.target = 0 /\ ~ptr.crossed /\ PointerUp)
              => panOffset' = panOffset
       ]_vars
  /\ [](\A pos \in DragPos :
          ~ENABLED (CanvasClickAt(pos) /\ selectedNodeId' # 0))

\* ------------------------------------------------------------------------
\* More properties of "add node"
\* ------------------------------------------------------------------------
\* C31: every createNode call that "add node" has made carries x >= 20 and
\* y >= 20, whatever the pan offset, the zoom level, the size of the canvas
\* and the number of nodes in the map are.
C31_AddedNodeAtLeast20 ==
  \A i \in 1..Len(mutations) :
    mutations[i].op = "createNode" =>
      /\ mutations[i].x >= Px(20)
      /\ mutations[i].y >= Px(20)

\* C31 witness: zoomed in to 3 on the small canvas, the spaced position of
\* the first node is left of and above (0, 0); the node was created at
\* (20, 20).
C31_Witness ==
  /\ zoomLevel = ZoomMax
  /\ Len(map.nodes) = 0
  /\ \E rect \in CanvasRects :
       /\ addNodeSpaced(rect, panOffset, zoomLevel, 0).x < 0
       /\ addNodeSpaced(rect, panOffset, zoomLevel, 0).y < 0
       /\ mutations = <<[op |-> "createNode", mapId |-> 1,
                         x |-> Px(20), y |-> Px(20)]>>

\* ------------------------------------------------------------------------
\* More properties of the routes
\* ------------------------------------------------------------------------
\* C32: a create-connection request of a logged-in user that names a stored
\* map and stored nodes is answered 201 and adds one row with a new id,
\* also when a connection from the same source to the same target is stored
\* already (the table then holds both) and when source and target are the
\* same node.
C32_ConnectionsNotDeduplicated ==
  [][ \A mapId \in MapRowIds, source \in RowIds(dbNodes),
         target \in RowIds(dbNodes), user \in Users :
        PostConnection(user, mapId, source, target) =>
          /\ res' = 201
          /\ Len(dbConnections') = Len(dbConnections) + 1
          /\ SubSeq(dbConnections', 1, Len(dbConnections)) = dbConnections
          /\ LET new == dbConnections'[Len(dbConnections')]
             IN /\ new.sourceNodeId = source
                /\ new.targetNodeId = target
                /\ new.mapId = mapId
                /\ new.id \notin RowIds(dbConnections)
    ]_vars

\* C32 witness: two connections are stored, with different ids, both from
\* node 1 to node 1.
C32_Witness ==
  /\ Len(dbConnections) = 2
  /\ dbConnections[1].id # dbConnections[2].id
  /\ \A i \in 1..2 : /\ dbConnections[i].sourceNodeId = 1
                      /\ dbConnections[i].targetNodeId = 1
  /\ 1 \in RowIds(dbNodes)
  /\ res = 201

\* C33: an update request of a logged-in user for a node id that is not
\* stored is answered 404 and leaves the stored nodes (and every other
\* table) as they were: no row is created.
C33_UpdateIsNoUpsert ==
  [][ \A id \in (1..MaxDbNodes) \ RowIds(dbNodes), user \in Users,
         pos \in Positions :
        PutNode(user, id, pos) =>
          /\ res' = 404
          /\ dbNodes' = dbNodes
          /\ dbConnections' = dbConnections
          /\ dbMaps' = dbMaps
    ]_vars

\* C33 witness: a request was answered 404 while a map and a node are
\* stored, no node was ever deleted, and a node id of the id range is not
\* stored.
C33_Witness ==
  /\ res = 404
  /\ MapRowIds # {}
  /\ dbNodes # <<>>
  /\ deletedNodes = {}
  /\ \E id \in 1..MaxDbNodes : id \notin RowIds(dbNodes)

\* ------------------------------------------------------------------------
\* More properties of the pending connection source
\* ------------------------------------------------------------------------
\* C34: once the answer to a create-connection call has arrived, be it a
\* success or a failure, no connection source is pending (so the next
\* modifier-click on a node makes that node the pending source and issues no
\* call from the old source).
C34_ConnectionCallClearsPending ==
  [][ \A i \in 1..Len(mutations), user \in {Me, NoUser} :
        (Settle(i, user) /\ mutations[i].op = "createConnection") =>
          connectionStartNode' = 0
    ]_vars

\* C35: a pending connection source is a node of the map that is shown, and
\* every create-connection call under way carries the id of that map and
\* names a source and a target among its nodes.
C35_PendingSourceIsNodeOfMap ==
  /\ connectionStartNode # 0 => connectionStartNode \in NodeIdsOf(map)
  /\ \A i \in 1..Len(mutations) :
       mutations[i].op = "createConnection" =>
         /\ mutations[i].mapId = map.id
         /\ mutations[i].sourceNodeId \in NodeIdsOf(map)
         /\ mutations[i].targetNodeId \in NodeIdsOf(map)

\* C36: a press on a node without the modifier key selects the node, leaves
\* no connection source pending and issues no call, whatever was pending
\* before.
C36_PlainPressClearsPending ==
  [][ \A n \in NodeIdsOf(map) :
        NodePointerDown(n, "mouse", Origin, FALSE) =>
          /\ selectedNodeId' = n
          /\ connectionStartNode' = 0
          /\ mutations' = mutations
    ]_vars

\* C36 witness: node 1 is the pending source and no pointer is down; a
\* press on node 2 without the modifier key selects node 2 and clears the
\* pending source.
C36_Witness ==
  /\ connectionStartNode = 1
  /\ ~ptr.down
  /\ selectedNodeId # 2
  /\ ENABLED ( /\ NodePointerDown(2, "mouse", Origin, FALSE)
               /\ connectionStartNode' = 0
               /\ selectedNodeId' = 2 )

\* ------------------------------------------------------------------------
\* More properties of the selection
\* ------------------------------------------------------------------------
\* C37: a press on the empty canvas that starts a pan (middle button, or
\* primary button with the pan modifier) leaves the selected node as it is,
\* and so does the click that such a press with the modifier ends in: the
\* selection is cleared by a press without modifier only.
C37_PanPressKeepsSelection ==
  [][ /\ \A type \in PointerTypes, button \in Buttons, shiftKey \in BOOLEAN,
            pos \in PointerPos :
           ( /\ CanvasPointerDown(type, button, shiftKey, pos)
             /\ (button = 1 \/ (button = 0 /\ shiftKey)) ) =>
             selectedNodeId' = selectedNodeId
      /\ \A pos \in DragPos :
           CanvasClickEvent(TRUE, pos) => selectedNodeId' = selectedNodeId
    ]_vars

\* ------------------------------------------------------------------------
\* Properties of multi-touch
\* ------------------------------------------------------------------------
\* C38: with two contacts on the screen at most one node is being dragged;
\* the release of a contact commits a move of the node that contact pressed
\* and of no other node; a move of a contact leaves the rendered position of
\* every node that contact did not press as it is.
C38_OneDragPerPointer ==
  /\ [](Cardinality({n \in NodeIdsOf(map) : isDragging[n]}) <= 1)
  /\ [][ /\ \A second \in BOOLEAN :
              TouchUp(second) =>
                \A i \in (Len(mutations) + 1)..Len(mutations') :
                  mutations'[i].id =
                    IF second THEN ptr.second.target ELSE ptr.target
         /\ \A pos \in DragPos :
              SecondPointerMove(pos) =>
                \A n \in NodeIdsOf(map) :
                  n # ptr.second.target => style'[n] = style[n]
         /\ \A pos \in DragPos :
              (ptr.down /\ PointerMove(pos)) =>
                \A n \in NodeIdsOf(map) :
                  n # ptr.target => style'[n] = style[n]
       ]_vars

\* ------------------------------------------------------------------------
\* Properties of ownership
\* ------------------------------------------------------------------------
\* The rows of a table (nodes or connections) that belong to map m
rowsOfMap(rows, m) == SelectSeq(rows, LAMBDA row : row.mapId = m)

\* The user who owns the stored map m
userOfMap(m) == (CHOOSE row \in dbMaps : row.id = m).userId

\* C39: a node update or delete, a connection delete and a connection
\* create requested by a logged-in user leave the nodes and the connections
\* of every map of another user as they are.
C39_OnlyOwnerChangesMap ==
  [][ \A user \in Users :
        ( \/ \E id \in 1..MaxDbNodes, pos \in Positions : PutNode(user, id, pos)
          \/ \E id \in 1..MaxDbNodes : DeleteNode(user, id)
          \/ \E id \in 1..MaxDbConns : DeleteConnection(user, id)
          \/ \E mapId \in MapIds, source \in 1..MaxDbNodes,
                target \in 1..MaxDbNodes :
               PostConnection(user, mapId, source, target) ) =>
          \A m \in MapRowIds :
            userOfMap(m) # user =>
              /\ rowsOfMap(dbNodes', m) = rowsOfMap(dbNodes, m)
              /\ rowsOfMap(dbConnections', m) = rowsOfMap(dbConnections, m)
    ]_vars

====
